---- MODULE Spec2Model ----
(***************************************************************************)
(* Model of the time-management web application (Flask + SQLAlchemy):      *)
(* the points engine of routes/progress.py, the plain habit check-in of    *)
(* routes/habits.py, and the schedule/task handlers of routes/schedule.py  *)
(* and routes/tasks.py, over the tables declared in models.py.             *)
(*                                                                         *)
(* One action is one HTTP request handled to completion.  A request that   *)
(* raises outside a try/except ends in HTTP 500 and the session is rolled  *)
(* back when the request context is torn down, so it commits nothing.      *)
(***************************************************************************)
EXTENDS Integers, Sequences, FiniteSets, TLC

(***************************************************************************)
(* Bounds of the model                                                     *)
(***************************************************************************)
MaxHabits == 1
MaxRewards == 1
MaxHistory == 3
MaxDay == 1
MaxCheckins == 2
MaxTasks == 1
MaxSchedules == 2
MaxFixed == 1
MaxReflections == 3
MaxSummaries == 2
MaxUsers == 4
MaxStreakDay == 5
MaxWatchlist == 7

(***************************************************************************)
(* Input domains                                                           *)
(***************************************************************************)
Users == {1, 2}
Categories == {"study", "other"}
\* points_required is int(request.form[...]) with no range validation
RewardCosts == {-10, 10}

\* Times of day in whole hours; end_time may lie before start_time
StartTimes == {9}
EndTimes == {8, 10}
\* SQL NULL / Python None in a nullable text column
NULL == "NULL"
\* a date column holding NULL, a date that does not exist
NoDate == -1
\* Schedule.status values, and the status column default
ScheduleStatuses == {"scheduled", "completed", "partial", "cancelled"}
\* completion_status form field of feedback: the labels yi-wancheng (done)
\* and wei-kaishi (not started, the default); bufen-wancheng (partly done)
\* is treated like done for the hours and like not started for the task.
\* The value is stored as posted, so a client can also post "completed".
FeedbackStatuses == {"yiwancheng", "weikaishi", "completed"}
\* actual_hours form field: blank, or a number
HoursInputs == {<<>>, <<1>>, <<-1>>}

\* Habit.points_value column default (no route assigns it)
DefaultPointsValue == 10

\* HTTP outcomes of a request
OK == 200
REDIRECT == 302
BAD_REQUEST == 400
NOT_FOUND == 404
SERVER_ERROR == 500

VARIABLES
    total_points,       \* users.total_points, per user id
    habits,             \* habits table: sequence indexed by habit id
    habit_checkins,     \* habit_checkins table: set of rows
    rewards,            \* rewards table: sequence indexed by reward id
    points_history,     \* points_history table in insertion order
    category_progress,  \* category_progress table (RewardProgress rows)
    tasks,              \* tasks table: sequence indexed by task id
    schedules,          \* schedules table: set of rows
    schedule_seq,       \* number of schedule ids handed out so far
    feedbacks,          \* feedbacks table: set of rows
    fixed_schedules,    \* fixed_schedules table in insertion order
    reflections,        \* daily_reflections table: set of rows
    summaries,          \* summaries table: set of rows
    users,              \* users table: the accounts, in insertion order
    watchlist_file,     \* watchlist.txt of the stock screener (app.py)
    session_state,      \* st.session_state of the stock screener
    streak_shown,       \* streaks on the progress page rendered last
    screening,          \* what run_screening returned last (app.py)
    inflight,           \* points check-ins that looked up and have not committed
    prompt,             \* the prompt sent to the AI service last
    today,              \* date.today(), as a day number
    resp,               \* the response of the request handled last
    last_checkin        \* history variable: what the request handled last
                        \* found, if it was an accepted points check-in

vars == <<total_points, habits, habit_checkins, rewards, points_history,
          category_progress, tasks, schedules, schedule_seq, feedbacks,
          fixed_schedules, reflections, summaries, users, watchlist_file,
          session_state, streak_shown, screening, inflight, prompt, today, resp,
          last_checkin>>

\* state outside the points engine and the schedule handlers
notPrompt == <<reflections, summaries, users, watchlist_file, session_state,
               streak_shown, screening, inflight>>
elsewhere == <<notPrompt, prompt>>

pointsTables == <<total_points, habits, habit_checkins, rewards,
                  points_history, category_progress>>

scheduleTables == <<tasks, schedules, schedule_seq, feedbacks>>

(***************************************************************************)
(* models.py                                                               *)
(***************************************************************************)
\* Attributes mapped by class RewardProgress.  The table has a total_hours
\* column (added by migrate_db.py) that the class does not map.
RewardProgressWithHours == {"id", "user_id", "category", "total_points",
                            "total_hours", "checkin_count", "last_updated"}
RewardProgress == {"id", "user_id", "category", "total_points",
                   "checkin_count", "last_updated"}

\* Habit.get_current_streak: walk back from `day` while a row exists.
StreakCount(rows, habit_id, day) ==
    Cardinality({c \in rows : c.habit_id = habit_id /\ c.checkin_date <= day})
RECURSIVE StreakFrom(_, _, _)
StreakFrom(rows, habit_id, day) ==
    IF day >= 0 /\ \E c \in rows : c.habit_id = habit_id /\ c.checkin_date = day
    THEN 1 + StreakFrom(rows, habit_id, day - 1)
    ELSE 0

get_current_streak(rows, habit_id) == StreakFrom(rows, habit_id, today)

\* Model.query.filter_by(id=..., user_id=current_user.id).first_or_404()
Owned(table, id, u) == id \in DOMAIN table /\ table[id].user_id = u

\* RewardProgress.query.filter_by(user_id=..., category=...).first()
ProgressRows(u, c) ==
    {p \in category_progress : p.user_id = u /\ p.category = c}

\* the response of handler `op` to user u: its HTTP status and the category
\* of the message it flashes
Response(u, op, code, flash) == [user |-> u, code |-> code, flash |-> flash]

(***************************************************************************)
(* Initial state: the tables of a database the application starts on.      *)
(* Users are registered with total_points 0.  category_progress is either  *)
(* empty or carries rows written before the hours column was introduced    *)
(* (the situation migrate_db.py upgrades in place).                        *)
(***************************************************************************)
\* last_checkin when the last request was no accepted points check-in
\* werkzeug generate_password_hash: a salted digest, told apart here only
\* by the password it was made from
PasswordHash(password) == <<"pbkdf2", password>>

\* the users table at the start: the accounts of Users
RegisteredUsers ==
    <<[username |-> "ann", email |-> "ann@x",
       password_hash |-> PasswordHash("secret1")],
      [username |-> "bob", email |-> "bob@x",
       password_hash |-> PasswordHash("secret2")]>>

\* watchlist.txt: missing, or present without being readable, or a text
\* held as the sequence of its characters
NoFile == [state |-> "absent", content |-> <<>>]
UnreadableFile == [state |-> "unreadable", content |-> <<>>]
\* st.session_state before the script has run in a session
\* no prompt has been sent yet
NoPrompt == <<>>

\* no stock has been screened yet
NoScreening == <<>>

NoSession == [started |-> FALSE, watchlist |-> <<>>,
              watchlist_initialized |-> FALSE]

NoCheckin == [user |-> 0, habit |-> 0, total_points |-> 0, progress |-> {}]

LegacyRow(u, c) ==
    [user_id |-> u, category |-> c, total_points |-> 5,
     checkin_count |-> 1, total_hours |-> 0]

Init ==
    /\ total_points = [u \in Users |-> 0]
    /\ habits = <<>>
    /\ habit_checkins = {}
    /\ rewards = <<>>
    /\ points_history = <<>>
    /\ \E us \in {{}, Users} :
          category_progress = {LegacyRow(u, "study") : u \in us}
    /\ tasks = <<>>
    /\ schedules = {}
    /\ schedule_seq = 0
    /\ feedbacks = {}
    /\ fixed_schedules = <<>>
    /\ reflections = {}
    /\ summaries = {}
    /\ users = RegisteredUsers
    /\ watchlist_file = NoFile
    /\ session_state = NoSession
    /\ streak_shown = <<>>
    /\ screening = NoScreening
    /\ inflight = <<>>
    /\ prompt = NoPrompt
    /\ today = 0
    /\ resp = Response(0, "none", OK, "none")
    /\ last_checkin = NoCheckin

(***************************************************************************)
(* routes/habits.py                                                        *)
(***************************************************************************)
\* add_habit: points_value, streak_days, total_checkins take column defaults
add_habit(u, c) ==
    /\ Len(habits) < MaxHabits
    /\ habits' = Append(habits,
          [user_id |-> u, category |-> c, points_value |-> DefaultPointsValue,
           streak_days |-> 0, total_checkins |-> 0])
    /\ resp' = Response(u, "add_habit", REDIRECT, "success")
    /\ UNCHANGED <<total_points, habit_checkins, rewards, points_history,
                   category_progress, today>>

\* the primary key of an inserted row: SQLite gives one more than the largest
\* in the table (the model declares no AUTOINCREMENT)
NextRowId(rows) ==
    IF rows = {} THEN 1
    ELSE 1 + (CHOOSE i \in {r.id : r \in rows} : \A r \in rows : r.id <= i)

\* HabitCheckin(user_id=..., habit_id=..., checkin_date=today), once inserted
NewCheckin(rows, u, habit_id) ==
    [id |-> NextRowId(rows), user_id |-> u, habit_id |-> habit_id,
     checkin_date |-> today]

\* .first(): of the rows found, the one stored first
First(rows) == CHOOSE r \in rows : \A x \in rows : r.id <= x.id

\* HabitCheckin.query.filter_by(habit_id=..., checkin_date=today)
TodayCheckinsNone(habit_id) == {}
TodayCheckins(habit_id) ==
    {c \in habit_checkins : c.habit_id = habit_id /\ c.checkin_date = today}

\* checkin (POST): look up today's row, create it if absent, then bump the
\* counter and recompute the streak with the row visible to the query
checkin(u, habit_id) ==
    IF ~Owned(habits, habit_id, u)
    THEN /\ resp' = Response(u, "checkin", NOT_FOUND, "none")
         /\ UNCHANGED <<pointsTables, today>>
    ELSE LET rows == IF TodayCheckins(habit_id) = {}
                     THEN habit_checkins \cup
                          {NewCheckin(habit_checkins, u, habit_id)}
                     ELSE habit_checkins
         IN /\ habits[habit_id].total_checkins < MaxCheckins
            /\ habit_checkins' = rows
            /\ habits' = [habits EXCEPT
                  ![habit_id].total_checkins = @ + 1,
                  ![habit_id].streak_days = get_current_streak(rows, habit_id)]
            /\ resp' = Response(u, "checkin", REDIRECT, "success")
            /\ UNCHANGED <<total_points, rewards, points_history,
                           category_progress, today>>

\* undo_checkin: delete the row found for today, if there is one
undo_checkin(u, habit_id) ==
    IF ~Owned(habits, habit_id, u)
    THEN /\ resp' = Response(u, "undo_checkin", NOT_FOUND, "none")
         /\ UNCHANGED <<pointsTables, today>>
    ELSE IF TodayCheckins(habit_id) = {}
    THEN /\ resp' = Response(u, "undo_checkin", REDIRECT, "none")
         /\ UNCHANGED <<pointsTables, today>>
    ELSE LET rows == habit_checkins \ {First(TodayCheckins(habit_id))}
         IN /\ habit_checkins' = rows
            /\ habits' = [habits EXCEPT
                  ![habit_id].total_checkins = @ - 1,
                  ![habit_id].streak_days = get_current_streak(rows, habit_id)]
            /\ resp' = Response(u, "undo_checkin", REDIRECT, "info")
            /\ UNCHANGED <<total_points, rewards, points_history,
                           category_progress, today>>

(***************************************************************************)
(* routes/progress.py                                                      *)
(***************************************************************************)
\* max(0, x)
Max0Stuck(x) == 0
Max0(x) == IF x > 0 THEN x ELSE 0

\* user.total_points < points: the balance does not cover the amount
InsufficientNever(balance, points) == FALSE
Insufficient(balance, points) == balance < points

\* reward.is_redeemed = True
RedeemedUnmarked(reward) == reward
Redeemed(reward) == [reward EXCEPT !.is_redeemed = TRUE]

HistoryRowStale(u, change, source_type, source_id, balance) ==
    [user_id |-> u, points_change |-> change, source_type |-> source_type,
     source_id |-> source_id, balance_after |-> balance - change]

\* a row that records the size of the change without its sign
HistoryRowUnsigned(u, change, source_type, source_id, balance) ==
    [user_id |-> u, points_change |-> IF change < 0 THEN -change ELSE change,
     source_type |-> source_type, source_id |-> source_id,
     balance_after |-> balance]

HistoryRow(u, change, source_type, source_id, balance) ==
    [user_id |-> u, points_change |-> change, source_type |-> source_type,
     source_id |-> source_id, balance_after |-> balance]

\* The RewardProgress object habit_checkin works on: the stored row, or a
\* new RewardProgress(user_id=..., category=...).  Column defaults are
\* applied by the INSERT, so on the new object total_points and
\* checkin_count are still unset (None) when the handler reads them.
CheckinProgress(u, c) ==
    IF ProgressRows(u, c) # {}
    THEN CHOOSE p \in ProgressRows(u, c) : TRUE
    ELSE [user_id |-> u, category |-> c]

\* habit_checkin: the points-awarding check-in
habit_checkin(u, habit_id) ==
    IF ~Owned(habits, habit_id, u)
    THEN /\ resp' = Response(u, "habit_checkin", NOT_FOUND, "none")
         /\ UNCHANGED <<pointsTables, today>>
    ELSE IF TodayCheckins(habit_id) # {}
    THEN /\ resp' = Response(u, "habit_checkin", REDIRECT, "warning")
         /\ UNCHANGED <<pointsTables, today>>
    ELSE LET habit == habits[habit_id]
             points == habit.points_value
             balance == total_points[u] + points
             category_prog == CheckinProgress(u, habit.category)
         IN IF "total_points" \notin DOMAIN category_prog
            THEN \* None += points raises TypeError outside the try block
                 /\ resp' = Response(u, "habit_checkin", SERVER_ERROR, "none")
                 /\ UNCHANGED <<pointsTables, today>>
            ELSE /\ Len(points_history) < MaxHistory
                 /\ total_points' = [total_points EXCEPT ![u] = balance]
                 /\ category_progress' =
                       (category_progress \ {category_prog}) \cup
                       {[category_prog EXCEPT
                           !.total_points = @ + points,
                           !.checkin_count = @ + 1]}
                 /\ points_history' = Append(points_history,
                       HistoryRow(u, points, "habit_checkin", habit_id,
                                  balance))
                 /\ habits' = [habits EXCEPT
                       ![habit_id].total_checkins = @ + 1,
                       ![habit_id].streak_days =
                           get_current_streak(habit_checkins, habit_id) + 1]
                 /\ habit_checkins' = habit_checkins \cup
                       {NewCheckin(habit_checkins, u, habit_id)}
                 /\ resp' = Response(u, "habit_checkin", REDIRECT, "success")
                 /\ UNCHANGED <<rewards, today>>

\* habit_undo: give the points back
habit_undo(u, habit_id) ==
    IF ~Owned(habits, habit_id, u)
    THEN /\ resp' = Response(u, "habit_undo", NOT_FOUND, "none")
         /\ UNCHANGED <<pointsTables, today>>
    ELSE IF TodayCheckins(habit_id) = {}
    THEN /\ resp' = Response(u, "habit_undo", REDIRECT, "warning")
         /\ UNCHANGED <<pointsTables, today>>
    ELSE IF Insufficient(total_points[u], habits[habit_id].points_value)
    THEN /\ resp' = Response(u, "habit_undo", REDIRECT, "danger")
         /\ UNCHANGED <<pointsTables, today>>
    ELSE LET habit == habits[habit_id]
             points == habit.points_value
             balance == total_points[u] - points
             found == ProgressRows(u, habit.category)
         IN /\ Len(points_history) < MaxHistory
            /\ total_points' = [total_points EXCEPT ![u] = balance]
            /\ category_progress' =
                  IF found = {} THEN category_progress
                  ELSE LET category_prog == CHOOSE p \in found : TRUE
                       IN (category_progress \ {category_prog}) \cup
                          {[category_prog EXCEPT
                              !.total_points = Max0(@ - points),
                              !.checkin_count = Max0(@ - 1)]}
            /\ points_history' = Append(points_history,
                  HistoryRow(u, -points, "habit_checkin", habit_id, balance))
            /\ habits' = [habits EXCEPT
                  ![habit_id].total_checkins = Max0(@ - 1),
                  ![habit_id].streak_days = Max0(@ - 1)]
            /\ habit_checkins' =
                  habit_checkins \ {First(TodayCheckins(habit_id))}
            /\ resp' = Response(u, "habit_undo", REDIRECT, "success")
            /\ UNCHANGED <<rewards, today>>

\* add_reward (progress center): a reward redeemable for points_required
add_reward(u, points_required) ==
    /\ Len(rewards) < MaxRewards
    /\ rewards' = Append(rewards,
          [user_id |-> u, points_required |-> points_required,
           is_redeemed |-> FALSE])
    /\ resp' = Response(u, "add_reward", REDIRECT, "success")
    /\ UNCHANGED <<total_points, habits, habit_checkins, points_history,
                   category_progress, today>>

\* redeem_reward
redeem_reward(u, reward_id) ==
    IF ~Owned(rewards, reward_id, u)
    THEN /\ resp' = Response(u, "redeem_reward", NOT_FOUND, "none")
         /\ UNCHANGED <<pointsTables, today>>
    ELSE IF rewards[reward_id].is_redeemed
    THEN /\ resp' = Response(u, "redeem_reward", REDIRECT, "warning")
         /\ UNCHANGED <<pointsTables, today>>
    ELSE IF Insufficient(total_points[u], rewards[reward_id].points_required)
    THEN /\ resp' = Response(u, "redeem_reward", REDIRECT, "danger")
         /\ UNCHANGED <<pointsTables, today>>
    ELSE LET cost == rewards[reward_id].points_required
             balance == total_points[u] - cost
         IN /\ Len(points_history) < MaxHistory
            /\ total_points' = [total_points EXCEPT ![u] = balance]
            /\ rewards' = [rewards EXCEPT ![reward_id] = Redeemed(@)]
            /\ points_history' = Append(points_history,
                  HistoryRow(u, -cost, "reward_redeem", reward_id, balance))
            /\ resp' = Response(u, "redeem_reward", REDIRECT, "success")
            /\ UNCHANGED <<habits, habit_checkins, category_progress, today>>

\* midnight passes: date.today() moves on
next_day ==
    /\ today < MaxDay
    /\ today' = today + 1
    /\ resp' = Response(0, "none", OK, "none")
    /\ last_checkin' = NoCheckin
    /\ UNCHANGED <<pointsTables, scheduleTables, fixed_schedules>>

(***************************************************************************)
(* Specification of the points engine                                      *)
(***************************************************************************)
HabitIds == 1..MaxHabits
RewardIds == 1..MaxRewards

\* what an accepted points check-in of habit_id by u found before it acted
Found(u, habit_id) ==
    [user |-> u, habit |-> habit_id, total_points |-> total_points[u],
     progress |-> ProgressRows(u, habits[habit_id].category)]

AddHabit ==
    /\ UNCHANGED <<scheduleTables, fixed_schedules, elsewhere>> /\ last_checkin' = NoCheckin
    /\ \E u \in Users, c \in Categories : add_habit(u, c)
Checkin ==
    /\ UNCHANGED <<scheduleTables, fixed_schedules, elsewhere>> /\ last_checkin' = NoCheckin
    /\ \E u \in Users, h \in HabitIds : checkin(u, h)
UndoCheckin ==
    /\ UNCHANGED <<scheduleTables, fixed_schedules, elsewhere>> /\ last_checkin' = NoCheckin
    /\ \E u \in Users, h \in HabitIds : undo_checkin(u, h)
HabitCheckin ==
    /\ UNCHANGED <<scheduleTables, fixed_schedules, elsewhere>>
    /\ \E u \in Users, h \in HabitIds :
          /\ habit_checkin(u, h)
          /\ last_checkin' = IF resp'.flash = "success" THEN Found(u, h)
                              ELSE NoCheckin
HabitUndo ==
    /\ UNCHANGED <<scheduleTables, fixed_schedules, elsewhere>> /\ last_checkin' = NoCheckin
    /\ \E u \in Users, h \in HabitIds : habit_undo(u, h)
AddReward ==
    /\ UNCHANGED <<scheduleTables, fixed_schedules, elsewhere>> /\ last_checkin' = NoCheckin
    /\ \E u \in Users, c \in RewardCosts : add_reward(u, c)
RedeemReward ==
    /\ UNCHANGED <<scheduleTables, fixed_schedules, elsewhere>> /\ last_checkin' = NoCheckin
    /\ \E u \in Users, r \in RewardIds : redeem_reward(u, r)
NextDay ==
    /\ UNCHANGED elsewhere
    /\ next_day

NextPoints ==
    \/ AddHabit
    \/ Checkin
    \/ UndoCheckin
    \/ HabitCheckin
    \/ HabitUndo
    \/ AddReward
    \/ RedeemReward
    \/ NextDay

SpecPoints == Init /\ [][NextPoints]_vars

(***************************************************************************)
(* routes/tasks.py                                                         *)
(***************************************************************************)
\* new_task (POST): category is the form value, blank coerced to the
\* default; deadline is the day of the deadline field, NoDate when the field
\* is blank or does not parse
new_task_due(u, c, is_meeting, deadline) ==
    /\ tasks' = Append(tasks,
          [user_id |-> u, status |-> "pending", completed_at |-> FALSE,
           category |-> c, is_meeting |-> is_meeting, deadline |-> deadline])
    /\ resp' = Response(u, "new_task", REDIRECT, "success")
    /\ UNCHANGED <<schedules, schedule_seq, feedbacks, category_progress>>

\* new_task with the is_meeting box unchecked and the deadline left blank
new_task(u, c) ==
    /\ Len(tasks) < MaxTasks
    /\ new_task_due(u, c, FALSE, NoDate)

\* complete_task; completed_at records whether the timestamp is set
complete_task(u, task_id) ==
    IF ~Owned(tasks, task_id, u)
    THEN /\ resp' = Response(u, "complete_task", NOT_FOUND, "none")
         /\ UNCHANGED <<scheduleTables, category_progress>>
    ELSE /\ tasks' = [tasks EXCEPT ![task_id].status = "completed",
                                   ![task_id].completed_at = TRUE]
         /\ resp' = Response(u, "complete_task", REDIRECT, "success")
         /\ UNCHANGED <<schedules, schedule_seq, feedbacks, category_progress>>

(***************************************************************************)
(* routes/schedule.py                                                      *)
(***************************************************************************)
\* Python truth of a nullable text value
Truthy(text) == text \notin {NULL, ""}

\* (datetime.combine(date, end_time) - datetime.combine(date, start_time))
\* in hours
Duration(start_time, end_time) == end_time - start_time

\* Schedule.query.filter_by(id=..., user_id=current_user.id)
ScheduleRows(schedule_id, u) ==
    {s \in schedules : s.id = schedule_id /\ s.user_id = u}

NoHelperCall == [raised |-> FALSE, committed |-> FALSE,
                 rows |-> category_progress]

\* update_reward_progress(category, hours) run on the table contents `rows`.
\* Returns whether it raised, whether it reached its db.session.commit(),
\* and the rows it leaves.
update_reward_progress(rows, u, category, hours) ==
    LET found == {p \in rows : p.user_id = u /\ p.category = category}
        kwargs == {"user_id", "category", "total_points", "total_hours",
                   "checkin_count"}
    IN IF found = {} /\ ~(kwargs \subseteq RewardProgress)
       THEN \* TypeError: invalid keyword argument for RewardProgress
            [raised |-> TRUE, committed |-> FALSE, rows |-> rows]
       ELSE IF "total_hours" \notin RewardProgress
       THEN \* AttributeError on reading progress.total_hours
            [raised |-> TRUE, committed |-> FALSE, rows |-> rows]
       ELSE LET progress ==
                   IF found = {}
                   THEN [user_id |-> u, category |-> category,
                         total_points |-> 0, checkin_count |-> 0,
                         total_hours |-> 0]
                   ELSE CHOOSE p \in found : TRUE
            IN [raised |-> FALSE, committed |-> TRUE,
                rows |-> (rows \ {progress}) \cup
                         {[progress EXCEPT !.checkin_count = @ + 1,
                                           !.total_hours = @ + hours]}]

\* decrease_reward_progress(category, hours)
decrease_reward_progress(rows, u, category, hours) ==
    LET found == {p \in rows : p.user_id = u /\ p.category = category}
    IN IF found = {}
       THEN [raised |-> FALSE, committed |-> FALSE, rows |-> rows]
       ELSE IF "total_hours" \notin RewardProgress
       THEN \* AttributeError on reading progress.total_hours
            [raised |-> TRUE, committed |-> FALSE, rows |-> rows]
       ELSE LET progress == CHOOSE p \in found : TRUE
            IN [raised |-> FALSE, committed |-> TRUE,
                rows |-> (rows \ {progress}) \cup
                         {[progress EXCEPT
                             !.checkin_count = Max0(@ - 1),
                             !.total_hours = Max0(@ - hours)]}]

\* manual_add (POST) with a well-formed date and times.  task_in = 0 stands
\* for no task or "custom"; category_in is the form value with blank
\* coerced to the default category.
manual_add(u, date, start_time, end_time, category_in, task_in) ==
    LET task_found == task_in # 0 /\ Owned(tasks, task_in, u)
        category == IF task_found /\ category_in = "other"
                    THEN tasks[task_in].category
                    ELSE category_in
    IN /\ schedule_seq < MaxSchedules
       /\ schedule_seq' = schedule_seq + 1
       /\ schedules' = schedules \cup
             {[id |-> schedule_seq + 1, user_id |-> u, date |-> date,
               start_time |-> start_time, end_time |-> end_time,
               task_id |-> IF task_found THEN task_in ELSE 0,
               category |-> category, generated_by_ai |-> FALSE,
               status |-> "scheduled"]}
       /\ resp' = Response(u, "manual_add", REDIRECT, "success")
       /\ UNCHANGED <<tasks, feedbacks, category_progress>>

\* feedback (POST)
feedback(u, schedule_id, completion_status, hours_in) ==
    IF ScheduleRows(schedule_id, u) = {}
    THEN /\ resp' = Response(u, "feedback", NOT_FOUND, "none")
         /\ UNCHANGED <<scheduleTables, category_progress>>
    ELSE LET schedule == CHOOSE s \in ScheduleRows(schedule_id, u) : TRUE
             existing == {f \in feedbacks : f.schedule_id = schedule_id}
             actual_hours ==
                 IF hours_in # <<>> THEN hours_in
                 ELSE IF existing = {} THEN <<>>
                 ELSE (CHOOSE f \in existing : TRUE).actual_hours
             \* completion_status, notes: stored too, never read by a handler
             feedback_record ==
                 [schedule_id |-> schedule_id, user_id |-> u,
                  actual_hours |-> actual_hours]
             updated == [schedule EXCEPT !.status = completion_status]
             rows == (schedules \ {schedule}) \cup {updated}
             helper ==
                 IF /\ completion_status \in {"yiwancheng", "bufenwancheng"}
                    /\ actual_hours # <<>> /\ actual_hours[1] # 0
                    /\ Truthy(schedule.category)
                 THEN update_reward_progress(category_progress, u,
                          schedule.category, actual_hours[1])
                 ELSE NoHelperCall
             task_id == schedule.task_id
             task_done ==
                 /\ task_id # 0 /\ completion_status = "yiwancheng"
                 /\ task_id \in DOMAIN tasks
                 /\ tasks[task_id].status = "pending"
                 /\ \A s \in rows :
                       s.task_id = task_id => s.status = "completed"
         IN IF helper.raised
            THEN \* raised outside the try block: nothing is committed
                 /\ resp' = Response(u, "feedback", SERVER_ERROR, "none")
                 /\ UNCHANGED <<scheduleTables, category_progress>>
            ELSE /\ schedules' = rows
                 /\ feedbacks' = (feedbacks \ existing) \cup {feedback_record}
                 /\ category_progress' = helper.rows
                 /\ tasks' = IF task_done
                             THEN [tasks EXCEPT
                                     ![task_id].status = "completed",
                                     ![task_id].completed_at = TRUE]
                             ELSE tasks
                 /\ resp' = Response(u, "feedback", REDIRECT, "success")
                 /\ UNCHANGED schedule_seq

\* toggle_status, lines 747-758: the linked task follows its schedules
ToggleTaskNoReopen(rows, task_id, new_status) ==
    IF task_id = 0 \/ task_id \notin DOMAIN tasks
    THEN tasks
    ELSE IF \A s \in rows : s.task_id = task_id => s.status = "completed"
    THEN [tasks EXCEPT ![task_id].status = "completed",
                       ![task_id].completed_at = TRUE]
    ELSE tasks
ToggleTask(rows, task_id, new_status) ==
    IF task_id = 0 \/ task_id \notin DOMAIN tasks
    THEN tasks
    ELSE IF \A s \in rows : s.task_id = task_id => s.status = "completed"
    THEN [tasks EXCEPT ![task_id].status = "completed",
                       ![task_id].completed_at = TRUE]
    ELSE IF tasks[task_id].status = "completed" /\ new_status # "completed"
    THEN [tasks EXCEPT ![task_id].status = "pending",
                       ![task_id].completed_at = FALSE]
    ELSE tasks

\* toggle_status (JSON POST); new_status = "" stands for a missing parameter.
\* The whole handler, first_or_404() included, runs inside
\* try/except Exception, which answers 500 after a rollback.
toggle_status(u, schedule_id, new_status) ==
    IF ScheduleRows(schedule_id, u) = {}
    THEN /\ resp' = Response(u, "toggle_status", SERVER_ERROR, "none")
         /\ UNCHANGED <<scheduleTables, category_progress>>
    ELSE IF new_status = "" \/ new_status \notin ScheduleStatuses
    THEN /\ resp' = Response(u, "toggle_status", BAD_REQUEST, "none")
         /\ UNCHANGED <<scheduleTables, category_progress>>
    ELSE LET schedule == CHOOSE s \in ScheduleRows(schedule_id, u) : TRUE
             old_status == schedule.status
             duration == Duration(schedule.start_time, schedule.end_time)
             updated == [schedule EXCEPT !.status = new_status]
             rows == (schedules \ {schedule}) \cup {updated}
             helper ==
                 IF new_status = "completed" /\ old_status # "completed"
                 THEN IF Truthy(schedule.category)
                      THEN update_reward_progress(category_progress, u,
                               schedule.category, duration)
                      ELSE NoHelperCall
                 ELSE IF old_status = "completed" /\ new_status # "completed"
                 THEN IF Truthy(schedule.category)
                      THEN decrease_reward_progress(category_progress, u,
                               schedule.category, duration)
                      ELSE NoHelperCall
                 ELSE NoHelperCall
         IN IF helper.raised
            THEN /\ resp' = Response(u, "toggle_status", SERVER_ERROR, "none")
                 /\ UNCHANGED <<scheduleTables, category_progress>>
            ELSE /\ schedules' = rows
                 /\ category_progress' = helper.rows
                 /\ tasks' = ToggleTask(rows, schedule.task_id, new_status)
                 /\ resp' = Response(u, "toggle_status", OK, "none")
                 /\ UNCHANGED <<schedule_seq, feedbacks>>

\* edit_schedule, lines 915-945: the reward-progress adjustment, as the
\* chain of helper calls made on the committed rows
EditProgress(u, old_status, new_status, old_category, category, old_duration, new_duration) ==
    IF old_status = "completed" /\ new_status # "completed"
    THEN IF Truthy(old_category)
         THEN decrease_reward_progress(category_progress, u, old_category,
                                       old_duration)
         ELSE NoHelperCall
    ELSE IF new_status = "completed" /\ old_status # "completed"
    THEN IF Truthy(category)
         THEN update_reward_progress(category_progress, u, category,
                                     new_duration)
         ELSE NoHelperCall
    ELSE IF old_status = "completed" /\ new_status = "completed"
    THEN IF old_category # category
         THEN LET first == IF Truthy(old_category)
                           THEN decrease_reward_progress(category_progress, u,
                                    old_category, old_duration)
                           ELSE NoHelperCall
              IN IF first.raised \/ ~Truthy(category)
                 THEN first
                 ELSE LET second == update_reward_progress(first.rows, u,
                                        category, new_duration)
                      IN [raised |-> second.raised,
                          committed |-> first.committed \/ second.committed,
                          rows |-> second.rows]
         ELSE IF Truthy(category) /\ new_duration - old_duration > 0
         THEN update_reward_progress(category_progress, u, category,
                                     new_duration - old_duration)
         ELSE IF Truthy(category) /\ new_duration - old_duration < 0
         THEN decrease_reward_progress(category_progress, u, category,
                                       old_duration - new_duration)
         ELSE NoHelperCall
    ELSE NoHelperCall

\* edit_schedule (POST) with a well-formed date and times.  task_in = 0
\* stands for no task or "custom"; status_in is the form value.
edit_schedule(u, schedule_id, task_in, category_in, date, start_time, end_time, status_in) ==
    IF ScheduleRows(schedule_id, u) = {}
    THEN /\ resp' = Response(u, "edit_schedule", NOT_FOUND, "none")
         /\ UNCHANGED <<scheduleTables, category_progress>>
    ELSE LET schedule == CHOOSE s \in ScheduleRows(schedule_id, u) : TRUE
             task_id == IF task_in = 0 THEN 0
                        ELSE IF Owned(tasks, task_in, u) THEN task_in
                        ELSE schedule.task_id
             edited == [schedule EXCEPT
                          !.task_id = task_id, !.category = category_in,
                          !.date = date, !.start_time = start_time,
                          !.end_time = end_time, !.status = status_in]
             helper == EditProgress(u, schedule.status, status_in,
                           schedule.category, category_in,
                           Duration(schedule.start_time, schedule.end_time),
                           Duration(start_time, end_time))
         IN IF helper.raised /\ ~helper.committed
            THEN \* except: db.session.rollback(); the form is shown again
                 /\ resp' = Response(u, "edit_schedule", OK, "danger")
                 /\ UNCHANGED <<scheduleTables, category_progress>>
            ELSE /\ schedules' = (schedules \ {schedule}) \cup {edited}
                 /\ category_progress' = helper.rows
                 /\ resp' =
                       IF helper.raised
                       THEN Response(u, "edit_schedule", OK, "danger")
                       ELSE Response(u, "edit_schedule", REDIRECT, "success")
                 /\ UNCHANGED <<tasks, schedule_seq, feedbacks>>

\* delete_schedule; the feedback row goes with the schedule (delete-orphan)
delete_schedule(u, schedule_id) ==
    IF ScheduleRows(schedule_id, u) = {}
    THEN /\ resp' = Response(u, "delete_schedule", NOT_FOUND, "none")
         /\ UNCHANGED <<scheduleTables, category_progress>>
    ELSE LET schedule == CHOOSE s \in ScheduleRows(schedule_id, u) : TRUE
             helper ==
                 IF schedule.status = "completed" /\ Truthy(schedule.category)
                 THEN decrease_reward_progress(category_progress, u,
                          schedule.category,
                          Duration(schedule.start_time, schedule.end_time))
                 ELSE NoHelperCall
         IN IF helper.raised
            THEN \* raised outside the try block: nothing is committed
                 /\ resp' = Response(u, "delete_schedule", SERVER_ERROR, "none")
                 /\ UNCHANGED <<scheduleTables, category_progress>>
            ELSE /\ schedules' = schedules \ {schedule}
                 /\ feedbacks' =
                       {f \in feedbacks : f.schedule_id # schedule_id}
                 /\ category_progress' = helper.rows
                 /\ resp' = Response(u, "delete_schedule", REDIRECT, "success")
                 /\ UNCHANGED <<tasks, schedule_seq>>

(***************************************************************************)
(* Specification of the schedule and task handlers.  User 1 creates tasks  *)
(* and schedules; user 2 owns none and addresses user 1's rows by id.      *)
(* Schedules last one hour; feedback reports no hours or one hour.         *)
(***************************************************************************)
TaskIds == 1..MaxTasks
ScheduleIds == 1..MaxSchedules
ScheduleOwners == {1}
\* date form field of manual_add and edit_schedule
Dates == {0}
\* status parameter of toggle_status: statuses, a missing parameter and an
\* unknown value
ToggleInputs == {"scheduled", "completed", "cancelled", "", "done"}
\* status form field of edit_schedule
EditStatuses == {"scheduled", "completed"}

pointsOnly == <<total_points, habits, habit_checkins, rewards,
                points_history, today, last_checkin>>

NewTask ==
    /\ UNCHANGED <<pointsOnly, fixed_schedules, elsewhere>>
    /\ \E u \in ScheduleOwners, c \in Categories : new_task(u, c)
CompleteTask ==
    /\ UNCHANGED <<pointsOnly, fixed_schedules, elsewhere>>
    /\ \E u \in Users, t \in TaskIds : complete_task(u, t)
ManualAdd ==
    /\ UNCHANGED <<pointsOnly, fixed_schedules, elsewhere>>
    /\ \E u \in ScheduleOwners, d \in Dates, st \in StartTimes,
          et \in {10}, c \in Categories, t \in {0} \cup TaskIds :
          manual_add(u, d, st, et, c, t)
Feedback ==
    /\ UNCHANGED <<pointsOnly, fixed_schedules, elsewhere>>
    /\ \E u \in Users, s \in ScheduleIds, cs \in FeedbackStatuses,
          h \in {<<>>, <<1>>} : feedback(u, s, cs, h)
ToggleStatus ==
    /\ UNCHANGED <<pointsOnly, fixed_schedules, elsewhere>>
    /\ \E u \in Users, s \in ScheduleIds, st \in ToggleInputs :
          toggle_status(u, s, st)
EditSchedule ==
    /\ UNCHANGED <<pointsOnly, fixed_schedules, elsewhere>>
    /\ \E u \in Users, s \in ScheduleIds, t \in {0} \cup TaskIds,
          c \in Categories, d \in Dates, st \in StartTimes, et \in {10},
          status \in EditStatuses :
          edit_schedule(u, s, t, c, d, st, et, status)
DeleteSchedule ==
    /\ UNCHANGED <<pointsOnly, fixed_schedules, elsewhere>>
    /\ \E u \in Users, s \in ScheduleIds : delete_schedule(u, s)

NextSchedule ==
    \/ NewTask
    \/ CompleteTask
    \/ ManualAdd
    \/ ToggleStatus
    \/ Feedback
    \/ EditSchedule
    \/ DeleteSchedule

SpecSchedule == Init /\ [][NextSchedule]_vars

(***************************************************************************)
(* Specification of the whole application used by one user, who has at     *)
(* most one schedule at a time, with schedules that may end before they    *)
(* start and feedback that reports any number of hours.                    *)
(***************************************************************************)
\* status parameter of toggle_status and completion_status of feedback
OwnToggleInputs == {"scheduled", "completed"}
OwnFeedbackStatuses == {"yiwancheng", "weikaishi"}

unsharedPoints == <<total_points, habits, habit_checkins, rewards,
                    points_history, today>>

OwnAddHabit ==
    /\ UNCHANGED <<scheduleTables, fixed_schedules, elsewhere>> /\ last_checkin' = NoCheckin
    /\ \E u \in ScheduleOwners, c \in Categories : add_habit(u, c)
OwnCheckin ==
    /\ UNCHANGED <<scheduleTables, fixed_schedules, elsewhere>> /\ last_checkin' = NoCheckin
    /\ \E u \in ScheduleOwners, h \in HabitIds : checkin(u, h)
OwnHabitCheckin ==
    /\ UNCHANGED <<scheduleTables, fixed_schedules, elsewhere>>
    /\ \E u \in ScheduleOwners, h \in HabitIds :
          /\ habit_checkin(u, h)
          /\ last_checkin' = IF resp'.flash = "success" THEN Found(u, h)
                              ELSE NoCheckin
OwnHabitUndo ==
    /\ UNCHANGED <<scheduleTables, fixed_schedules, elsewhere>> /\ last_checkin' = NoCheckin
    /\ \E u \in ScheduleOwners, h \in HabitIds : habit_undo(u, h)
OwnAddReward ==
    /\ UNCHANGED <<scheduleTables, fixed_schedules, elsewhere>> /\ last_checkin' = NoCheckin
    /\ \E u \in ScheduleOwners, c \in RewardCosts : add_reward(u, c)
OwnRedeemReward ==
    /\ UNCHANGED <<scheduleTables, fixed_schedules, elsewhere>> /\ last_checkin' = NoCheckin
    /\ \E u \in ScheduleOwners, r \in RewardIds : redeem_reward(u, r)
OwnManualAdd ==
    /\ schedules = {}
    /\ UNCHANGED <<unsharedPoints, fixed_schedules, elsewhere>> /\ last_checkin' = NoCheckin
    /\ \E u \in ScheduleOwners, d \in Dates, st \in StartTimes,
          et \in EndTimes, c \in Categories :
          manual_add(u, d, st, et, c, 0)
OwnFeedback ==
    /\ UNCHANGED <<unsharedPoints, fixed_schedules, elsewhere>> /\ last_checkin' = NoCheckin
    /\ \E u \in ScheduleOwners, s \in ScheduleIds,
          cs \in OwnFeedbackStatuses, h \in HoursInputs :
          feedback(u, s, cs, h)
OwnToggleStatus ==
    /\ UNCHANGED <<unsharedPoints, fixed_schedules, elsewhere>> /\ last_checkin' = NoCheckin
    /\ \E u \in ScheduleOwners, s \in ScheduleIds, st \in OwnToggleInputs :
          toggle_status(u, s, st)
OwnEditSchedule ==
    /\ UNCHANGED <<unsharedPoints, fixed_schedules, elsewhere>> /\ last_checkin' = NoCheckin
    /\ \E u \in ScheduleOwners, s \in ScheduleIds, c \in Categories,
          d \in Dates, st \in StartTimes, et \in EndTimes,
          status \in EditStatuses :
          edit_schedule(u, s, 0, c, d, st, et, status)
OwnDeleteSchedule ==
    /\ UNCHANGED <<unsharedPoints, fixed_schedules, elsewhere>> /\ last_checkin' = NoCheckin
    /\ \E u \in ScheduleOwners, s \in ScheduleIds : delete_schedule(u, s)

Next ==
    \/ OwnAddHabit
    \/ OwnCheckin
    \/ OwnHabitCheckin
    \/ OwnHabitUndo
    \/ OwnAddReward
    \/ OwnRedeemReward
    \/ OwnManualAdd
    \/ OwnFeedback
    \/ OwnToggleStatus
    \/ OwnEditSchedule
    \/ OwnDeleteSchedule

Spec == Init /\ [][Next]_vars

(***************************************************************************)
(* routes/fixed.py                                                         *)
(***************************************************************************)

\* add_schedule (POST) with well-formed times and blank date fields: the
\* row starts today, has no end date and is active by column default
add_schedule(u, day_of_week, start_time, end_time, category) ==
    /\ Len(fixed_schedules) < MaxFixed
    /\ fixed_schedules' = Append(fixed_schedules,
          [user_id |-> u, day_of_week |-> day_of_week,
           start_time |-> start_time, end_time |-> end_time,
           category |-> category, start_date |-> today, end_date |-> NoDate,
           is_active |-> TRUE])
    /\ resp' = Response(u, "add_schedule", REDIRECT, "success")
    /\ UNCHANGED <<scheduleTables, category_progress>>

(***************************************************************************)
(* routes/schedule.py: generate_schedule                                   *)
(*                                                                         *)
(* The reply of the AI service is a text; the model holds it as the        *)
(* sequence of its lines, each line reduced to what the two regular        *)
(* expressions and the title matching of the handler can see in it:        *)
(*   [kind |-> "date", day |-> d]   a date marker naming day d, or NoDate   *)
(*                                  when the month and day form no date    *)
(*   [kind |-> "time", start_time, end_time, title, part4]                 *)
(*                                  a time range; title is -1 when no      *)
(*                                  title is left on the line, a task id   *)
(*                                  when the title and that task's title   *)
(*                                  contain one another, else 0; part4 is  *)
(*                                  the fourth |-separated part, or NULL   *)
(*   [kind |-> "text"]              any other line                         *)
(* None and the empty string are both the empty sequence.                  *)
(***************************************************************************)
\* date.weekday() of a day number; day 0 is a Monday
Weekday(day) == day % 7

\* call_deepseek_api: the content of a 200 reply, None when the key is
\* missing, the status is not 200, or the request raises
call_deepseek_api(api_key, outcome, content) ==
    IF ~api_key \/ outcome # "ok" THEN <<>> ELSE content

\* line 414: not ai_response
AiFailedNever(ai_response) == FALSE
AiFailed(ai_response) == ai_response = <<>>

\* end of the target range
EndDate(schedule_type, start_date) ==
    IF schedule_type = "week" THEN start_date + 6 ELSE start_date

\* all_tasks: ids of the user's pending tasks
PendingTasks(u) ==
    {t \in DOMAIN tasks : tasks[t].user_id = u /\ tasks[t].status = "pending"}

\* previous_uncompleted: earlier AI schedules of a task, still scheduled
PreviousUncompleted(u, start_date) ==
    {s \in schedules : /\ s.user_id = u /\ s.date < start_date
                       /\ s.generated_by_ai /\ s.status = "scheduled"
                       /\ s.task_id # 0}

\* the user's active fixed schedules that fall on `day`
DayFixed(u, day) ==
    LET Falls(fs) == /\ fs.user_id = u /\ fs.is_active
                     /\ fs.day_of_week = Weekday(day)
                     /\ fs.start_date <= day
                     /\ (fs.end_date = NoDate \/ fs.end_date >= day)
        OnDay(fs) == [fs |-> fs, day |-> day]
        found == SelectSeq(fixed_schedules, Falls)
    IN [i \in 1..Len(found) |-> OnDay(found[i])]

RECURSIVE WeekFixed(_, _, _)
WeekFixed(u, start_date, i) ==
    IF i > 6 THEN <<>>
    ELSE DayFixed(u, start_date + i) \o WeekFixed(u, start_date, i + 1)

\* fixed_schedules of the request, each with the day it is placed on
FixedOf(u, schedule_type, start_date) ==
    IF schedule_type = "week" THEN WeekFixed(u, start_date, 0)
    ELSE DayFixed(u, start_date)

\* the rows removed by the bulk delete of lines 419-432
Regenerable(s, u, start_date, end_date) ==
    /\ s.user_id = u /\ start_date <= s.date /\ s.date <= end_date
    /\ s.generated_by_ai /\ s.status # "completed"

\* lines 434-464: every fixed schedule becomes an AI-generated row
RECURSIVE InsertFixed(_, _, _, _)
InsertFixed(rows, seq, u, fixed) ==
    IF fixed = <<>> THEN [rows |-> rows, seq |-> seq]
    ELSE LET fs == Head(fixed).fs
         IN InsertFixed(rows \cup
               {[id |-> seq + 1, user_id |-> u, date |-> Head(fixed).day,
                 start_time |-> fs.start_time, end_time |-> fs.end_time,
                 task_id |-> 0, category |-> fs.category,
                 generated_by_ai |-> TRUE, status |-> "scheduled"]},
               seq + 1, u, Tail(fixed))

\* datetime.time(hour, minute) accepts hours 0..23
ValidTime(t) == t \in 0..23

\* lines 466-514: the blocks of the reply in line order, each under the
\* date of the marker before it
RECURSIVE ParseLines(_, _, _)
ParseLines(lines, current_date, start_date) ==
    IF lines = <<>> THEN <<>>
    ELSE LET line == Head(lines)
         IN IF line.kind = "date"
            THEN ParseLines(Tail(lines),
                    IF line.day = NoDate THEN start_date ELSE line.day,
                    start_date)
            ELSE IF line.kind = "time" /\ line.title # -1
            THEN <<[date |-> current_date, start_time |-> line.start_time,
                    end_time |-> line.end_time, title |-> line.title,
                    part4 |-> line.part4]>>
                 \o ParseLines(Tail(lines), current_date, start_date)
            ELSE ParseLines(Tail(lines), current_date, start_date)

\* time(start_hour, start_min) or time(end_hour, end_min) raises ValueError
ParseRaises(lines) ==
    \E i \in DOMAIN lines :
       /\ lines[i].kind = "time" /\ lines[i].title # -1
       /\ ~(ValidTime(lines[i].start_time) /\ ValidTime(lines[i].end_time))

\* schedule_by_date.items(): dates in order of first appearance, the blocks
\* of a date in line order
RECURSIVE GroupByDate(_)
GroupByDate(blocks) ==
    IF blocks = <<>> THEN <<>>
    ELSE LET Same(b) == b.date = Head(blocks).date
             Other(b) == b.date # Head(blocks).date
         IN SelectSeq(blocks, Same) \o GroupByDate(SelectSeq(blocks, Other))

\* line 518: a row of the user with the same date, start and end
ExistingOverlap(rows, u, b) ==
    \E s \in rows : /\ s.user_id = u /\ s.date = b.date
                    /\ s.start_time < b.end_time /\ b.start_time < s.end_time
Existing(rows, u, b) ==
    \E s \in rows : /\ s.user_id = u /\ s.date = b.date
                    /\ s.start_time = b.start_time /\ s.end_time = b.end_time

\* lines 516-565: a block is skipped when a row already has its slot, rows
\* added earlier in the request included; otherwise it becomes a row
RECURSIVE InsertBlocks(_, _, _, _, _)
InsertBlocks(rows, seq, u, all_tasks, blocks) ==
    IF blocks = <<>> THEN [rows |-> rows, seq |-> seq]
    ELSE LET b == Head(blocks)
             matched == b.title \in all_tasks
         IN IF Existing(rows, u, b)
            THEN InsertBlocks(rows, seq, u, all_tasks, Tail(blocks))
            ELSE InsertBlocks(rows \cup
                    {[id |-> seq + 1, user_id |-> u, date |-> b.date,
                      start_time |-> b.start_time, end_time |-> b.end_time,
                      task_id |-> IF matched THEN b.title ELSE 0,
                      category |-> IF matched THEN tasks[b.title].category
                                   ELSE b.part4,
                      generated_by_ai |-> TRUE, status |-> "scheduled"]},
                    seq + 1, u, all_tasks, Tail(blocks))

\* lines 570-582: an earlier schedule is cancelled when its task has an
\* AI-generated row inside the target range
CancelContinued(rows, u, previous, start_date, end_date) ==
    LET continued(old) ==
           /\ old \in previous
           /\ \E s \in rows : /\ s.user_id = u
                              /\ start_date <= s.date /\ s.date <= end_date
                              /\ s.task_id = old.task_id /\ s.generated_by_ai
    IN {IF continued(s) THEN [s EXCEPT !.status = "cancelled"] ELSE s :
          s \in rows}

\* meeting_tasks (meeting) and regular_tasks (not meeting): the pending
\* tasks of the user, in the order of the query
TasksWhere(u, meeting) ==
    LET Listed(t) == t \in PendingTasks(u) /\ tasks[t].is_meeting = meeting
    IN SelectSeq([t \in DOMAIN tasks |-> t], Listed)

\* lines 251-269, tasks_data: the meetings, then the regular tasks, without
\* those whose deadline is more than 7 days before start_date
tasks_data(u, start_date) ==
    LET Recent(t) == \/ tasks[t].deadline = NoDate
                     \/ tasks[t].deadline - start_date >= -7
    IN SelectSeq(TasksWhere(u, TRUE) \o TasksWhere(u, FALSE), Recent)

\* lines 341-360: the task lines of the prompt, written from meeting_tasks
\* and regular_tasks; tasks_data is not read.  Of the prompt the model
\* keeps these lines.
PromptTasks(u, start_date) == TasksWhere(u, TRUE) \o TasksWhere(u, FALSE)

\* generate_schedule (POST).  The bulk delete bypasses the delete-orphan
\* cascade of Schedule.feedback, and the SQLite database of the application
\* does not enforce the foreign key of feedbacks: feedback rows of deleted
\* schedules stay.
generate_schedule(u, schedule_type, api_key, outcome, content) ==
    LET start_date == today
        end_date == EndDate(schedule_type, start_date)
        all_tasks == PendingTasks(u)
        previous == PreviousUncompleted(u, start_date)
        fixed == FixedOf(u, schedule_type, start_date)
        ai_response == call_deepseek_api(api_key, outcome, content)
        sent == <<[user_id |-> u, tasks |-> PromptTasks(u, start_date)]>>
        kept == {s \in schedules : ~Regenerable(s, u, start_date, end_date)}
        with_fixed == InsertFixed(kept, schedule_seq, u, fixed)
        blocks == GroupByDate(ParseLines(ai_response, start_date, start_date))
        inserted == InsertBlocks(with_fixed.rows, with_fixed.seq, u,
                                 all_tasks, blocks)
    IN IF all_tasks = {} /\ fixed = <<>>
       THEN /\ resp' = Response(u, "generate_schedule", REDIRECT, "warning")
            /\ UNCHANGED <<scheduleTables, category_progress, prompt>>
       ELSE IF ~api_key
       THEN /\ resp' = Response(u, "generate_schedule", REDIRECT, "danger")
            /\ UNCHANGED <<scheduleTables, category_progress, prompt>>
       ELSE IF AiFailed(ai_response)
       THEN /\ resp' = Response(u, "generate_schedule", REDIRECT, "danger")
            /\ prompt' = sent
            /\ UNCHANGED <<scheduleTables, category_progress>>
       ELSE IF ParseRaises(ai_response)
       THEN \* raised outside the try block: the bulk delete is rolled back
            /\ resp' = Response(u, "generate_schedule", SERVER_ERROR, "none")
            /\ prompt' = sent
            /\ UNCHANGED <<scheduleTables, category_progress>>
       ELSE /\ inserted.seq <= MaxSchedules
            /\ prompt' = sent
            /\ schedules' = CancelContinued(inserted.rows, u, previous,
                                            start_date, end_date)
            /\ schedule_seq' = inserted.seq
            /\ resp' = Response(u, "generate_schedule", REDIRECT, "success")
            /\ UNCHANGED <<tasks, feedbacks, category_progress>>

(***************************************************************************)
(* Specification of schedule generation.  User 1 has the task, user 2 the  *)
(* fixed schedule; both add schedules by hand and ask for generation.      *)
(* The AI service answers with one of a few replies or fails.              *)
(***************************************************************************)
\* type form field of generate_schedule
ScheduleTypes == {"today", "week"}
\* what becomes of the request to the AI service
ApiOutcomes == {"ok", "error"}

TimeLine(start_time, end_time, title, part4) ==
    [kind |-> "time", start_time |-> start_time, end_time |-> end_time,
     title |-> title, part4 |-> part4]
DateLine(day) == [kind |-> "date", day |-> day]
TextLine == [kind |-> "text"]

\* replies of the AI service: empty; the task from 9 to 10; an untitled
\* activity from 9 to 11; a second day with the same slot twice; prose with
\* a malformed date and a time range without title; an impossible hour
AiContents ==
    { <<>>,
      <<TimeLine(9, 10, 1, NULL)>>,
      <<TimeLine(9, 11, 0, NULL)>>,
      <<DateLine(1), TimeLine(9, 10, 1, "study"), TimeLine(9, 10, 0, NULL)>>,
      <<TextLine, DateLine(NoDate), TimeLine(9, 10, -1, NULL)>>,
      <<TimeLine(9, 24, 0, NULL)>> }

GenNewTask ==
    /\ UNCHANGED <<pointsOnly, fixed_schedules, elsewhere>>
    /\ new_task(1, "study")
GenAddSchedule ==
    /\ UNCHANGED <<pointsOnly, elsewhere>>
    /\ add_schedule(2, 0, 9, 10, "other")
GenManualAdd ==
    /\ UNCHANGED <<pointsOnly, fixed_schedules, elsewhere>>
    /\ \E u \in Users, d \in Dates : manual_add(u, d, 9, 10, "other", 0)
GenerateSchedule ==
    /\ UNCHANGED <<pointsOnly, fixed_schedules, notPrompt>>
    /\ \E u \in Users, schedule_type \in ScheduleTypes, api_key \in BOOLEAN,
          outcome \in ApiOutcomes, content \in AiContents :
          generate_schedule(u, schedule_type, api_key, outcome, content)
GenFeedback ==
    /\ UNCHANGED <<pointsOnly, fixed_schedules, elsewhere>>
    /\ \E u \in Users, s \in ScheduleIds : feedback(u, s, "yiwancheng", <<>>)
GenToggleStatus ==
    /\ UNCHANGED <<pointsOnly, fixed_schedules, elsewhere>>
    /\ \E u \in Users, s \in ScheduleIds, st \in OwnToggleInputs :
          toggle_status(u, s, st)
GenNextDay ==
    /\ UNCHANGED elsewhere
    /\ next_day

NextGenerate ==
    \/ GenNewTask
    \/ GenAddSchedule
    \/ GenManualAdd
    \/ GenerateSchedule
    \/ GenToggleStatus
    \/ GenFeedback
    \/ GenNextDay

SpecGenerate == Init /\ [][NextGenerate]_vars

(***************************************************************************)
(* routes/reflection.py                                                    *)
(***************************************************************************)
\* reflection_date form field: blank, two well-formed dates, a malformed one
DateTexts == {"", "day0", "day1", "soon"}
\* lines 27-34: strptime of the field; blank or malformed gives today
ReflectionDate(text) ==
    IF text = "day0" THEN 0 ELSE IF text = "day1" THEN 1 ELSE today

\* deep_work_hours form field, stripped: a number, not a number
HoursTexts == {"2", "two"}
\* float(deep_hours) raises ValueError
FloatRaises(text) == text \notin {"", "2"}
\* line 55: float(deep_hours) if deep_hours else None; <<>> is None
DeepWorkHours(text) == IF text = "2" THEN <<2>> ELSE <<>>

\* models.py, unique_daily_reflection: an INSERT of `row` is rejected when
\* the table holds a row of the same user and date
UniqueUnconstrained(rows, row) == FALSE
UniqueDailyReflection(rows, row) ==
    \E r \in rows : /\ r.user_id = row.user_id
                    /\ r.reflection_date = row.reflection_date

\* a DailyReflection row as it is first added to the session
NewReflection(u, reflection_date) ==
    [id |-> Cardinality(reflections) + 1, user_id |-> u,
     reflection_date |-> reflection_date, core_progress |-> "",
     deep_work_hours |-> <<>>]

\* save_reflection (POST)
save_reflection(u, date_text, core_progress, hours_text) ==
    LET reflection_date == ReflectionDate(date_text)
        found == {r \in reflections : /\ r.user_id = u
                                      /\ r.reflection_date = reflection_date}
        reflection == IF found = {} THEN NewReflection(u, reflection_date)
                      ELSE CHOOSE r \in found : TRUE
        saved == [reflection EXCEPT !.core_progress = core_progress,
                                    !.deep_work_hours = DeepWorkHours(hours_text)]
    IN IF FloatRaises(hours_text)
       THEN \* raised outside the try block: nothing is committed
            /\ resp' = Response(u, "save_reflection", SERVER_ERROR, "none")
            /\ UNCHANGED reflections
       ELSE IF found = {} /\ UniqueDailyReflection(reflections, saved)
       THEN \* IntegrityError at commit, rolled back
            /\ resp' = Response(u, "save_reflection", REDIRECT, "danger")
            /\ UNCHANGED reflections
       ELSE /\ found = {} => Cardinality(reflections) < MaxReflections
            /\ reflections' = (reflections \ found) \cup {saved}
            /\ resp' = Response(u, "save_reflection", REDIRECT, "success")

\* a DailyReflection row added and committed without the lookup of
\* save_reflection
insert_reflection(u, reflection_date, core_progress) ==
    LET row == [NewReflection(u, reflection_date) EXCEPT
                  !.core_progress = core_progress]
    IN IF UniqueDailyReflection(reflections, row)
       THEN \* IntegrityError
            /\ resp' = Response(u, "insert", SERVER_ERROR, "none")
            /\ UNCHANGED reflections
       ELSE /\ Cardinality(reflections) < MaxReflections
            /\ reflections' = reflections \cup {row}
            /\ resp' = Response(u, "insert", OK, "none")

(***************************************************************************)
(* Specification of the daily reflections of two users over two days.      *)
(* The form always reports deep-work hours; rows inserted directly carry   *)
(* one text.                                                               *)
(***************************************************************************)
\* core_progress form field
ProgressTexts == {"a", "b"}

\* everything but the reflections, the date and the response
notReflections == <<pointsTables, scheduleTables, fixed_schedules, summaries,
                    users, watchlist_file, session_state, streak_shown, screening,
                   inflight, prompt,
                    last_checkin>>

SaveReflection ==
    /\ UNCHANGED <<notReflections, today>>
    /\ \E u \in Users, date_text \in DateTexts, core_progress \in ProgressTexts,
          hours_text \in HoursTexts :
          save_reflection(u, date_text, core_progress, hours_text)
InsertReflection ==
    /\ UNCHANGED <<notReflections, today>>
    /\ \E u \in Users, reflection_date \in 0..MaxDay :
          insert_reflection(u, reflection_date, "a")
ReflectionNextDay ==
    /\ UNCHANGED elsewhere
    /\ next_day

NextReflection ==
    \/ SaveReflection
    \/ InsertReflection
    \/ ReflectionNextDay

SpecReflection == Init /\ [][NextReflection]_vars

(***************************************************************************)
(* routes/summary.py                                                       *)
(*                                                                         *)
(* Day 0 is a Monday and the first day of a month.  A Summary row carries  *)
(* its key, the task counts and the generated text; the hours columns are  *)
(* written by the same assignments and are left out.  The text is held as  *)
(* what it is built from: the core_progress entries of the reflections in  *)
(* the range in date order, or the notice that there are none.             *)
(***************************************************************************)
\* lines 97-111: the date range of a summary type; anything that is neither
\* daily nor weekly is treated as monthly
SummaryStart(summary_type) ==
    IF summary_type = "daily" THEN today
    ELSE IF summary_type = "weekly" THEN today - Weekday(today)
    ELSE 0

\* ai_summary of a row that has not been written yet
NoText == [notice |-> FALSE, entries |-> <<>>]

\* lines 114-119: the rows with the key of the request
ExistingNone(rows, u, summary_type, start_date, end_date) == {}
ExistingSummary(rows, u, summary_type, start_date, end_date) ==
    {s \in rows : /\ s.user_id = u /\ s.summary_type = summary_type
                  /\ s.start_date = start_date /\ s.end_date = end_date}

\* lines 255-258 and 330-345: the reflections of the range in date order,
\* each as its date and core_progress
RECURSIVE CoreProgressList(_, _, _)
CoreProgressList(u, day, end_date) ==
    IF day > end_date THEN <<>>
    ELSE LET found == {r \in reflections :
                         r.user_id = u /\ r.reflection_date = day}
         IN (IF found = {} THEN <<>>
             ELSE <<[date |-> day,
                     core_progress |->
                        (CHOOSE r \in found : TRUE).core_progress]>>)
            \o CoreProgressList(u, day + 1, end_date)

\* generate_summary (POST)
generate_summary(u, summary_type) ==
    LET start_date == SummaryStart(summary_type)
        end_date == today
        existing == ExistingSummary(summaries, u, summary_type, start_date,
                                    end_date)
        summary == IF existing # {} THEN CHOOSE s \in existing : TRUE
                   ELSE [id |-> Cardinality(summaries) + 1, user_id |-> u,
                         summary_type |-> summary_type,
                         start_date |-> start_date, end_date |-> end_date,
                         total_tasks |-> 0, completed_tasks |-> 0,
                         ai_summary |-> NoText]
        in_range == {s \in schedules : /\ s.user_id = u
                                       /\ start_date <= s.date
                                       /\ s.date <= end_date}
        completed == {s \in in_range : s.status = "completed"}
        entries == CoreProgressList(u, start_date, end_date)
        \* lines 306-311: without reflections the text is a notice
        text == [notice |-> entries = <<>>, entries |-> entries]
        written == [summary EXCEPT
                      !.total_tasks = Cardinality(in_range),
                      !.completed_tasks = Cardinality(completed),
                      !.ai_summary = text]
    IN /\ existing = {} => Cardinality(summaries) < MaxSummaries
       /\ summaries' = (summaries \ {summary}) \cup {written}
       /\ resp' = Response(u, "generate_summary", REDIRECT,
                           IF entries = <<>> THEN "warning" ELSE "success")

(***************************************************************************)
(* Specification of the summaries of two users over two days.  User 1      *)
(* saves today's reflection and adds schedules by hand; both users ask for *)
(* summaries.                                                              *)
(***************************************************************************)
\* type form field of generate_summary
SummaryTypes == {"daily", "weekly", "monthly"}

SumSaveReflection ==
    /\ UNCHANGED <<notReflections, today>>
    /\ save_reflection(1, "", "a", "2")
SumManualAdd ==
    /\ UNCHANGED <<pointsOnly, fixed_schedules, elsewhere>>
    /\ manual_add(1, 0, 9, 10, "other", 0)
GenerateSummary ==
    /\ UNCHANGED <<pointsTables, scheduleTables, fixed_schedules, reflections,
                   users, watchlist_file, session_state, streak_shown, screening,
                   inflight, prompt,
                   last_checkin, today>>
    /\ \E u \in Users, summary_type \in SummaryTypes :
          generate_summary(u, summary_type)
SumNextDay ==
    /\ UNCHANGED elsewhere
    /\ next_day

NextSummary ==
    \/ SumSaveReflection
    \/ SumManualAdd
    \/ GenerateSummary
    \/ SumNextDay

SpecSummary == Init /\ [][NextSummary]_vars

(***************************************************************************)
(* routes/auth.py                                                          *)
(***************************************************************************)
\* str.strip() on the texts the forms of the model send
Strip(text) ==
    IF text = " ann " THEN "ann"
    ELSE IF text = " cat@x" THEN "cat@x"
    ELSE IF text = "  " THEN ""
    ELSE text

\* line 27: len(password) < 6
TooShortNever(password) == FALSE
TooShort(password) == Len(password) < 6

\* models.py: username and email are unique columns
UsersUnique(rows, username, email) ==
    \A i \in DOMAIN rows :
       rows[i].username # username /\ rows[i].email # email

\* register (POST)
register(username_in, email_in, password, confirm_password) ==
    LET username == Strip(username_in)
        email == Strip(email_in)
        rejected ==
           \/ username = "" \/ email = "" \/ password = ""
           \/ password # confirm_password
           \/ TooShort(password)
           \/ \E i \in DOMAIN users : users[i].username = username
           \/ \E i \in DOMAIN users : users[i].email = email
    IN IF rejected
       THEN /\ resp' = Response(0, "register", OK, "danger")
            /\ UNCHANGED users
       ELSE IF ~UsersUnique(users, username, email)
       THEN \* IntegrityError at commit, rolled back
            /\ resp' = Response(0, "register", OK, "danger")
            /\ UNCHANGED users
       ELSE /\ Len(users) < MaxUsers
            /\ users' = Append(users,
                  [username |-> username, email |-> email,
                   password_hash |-> PasswordHash(password)])
            /\ resp' = Response(0, "register", REDIRECT, "success")

(***************************************************************************)
(* Specification of registration: visitors submit the form with names and  *)
(* addresses that are new, taken, padded with blanks, differently cased or *)
(* blank, and with passwords of five and six characters.                   *)
(***************************************************************************)
UsernameInputs == {"", "  ", "ann", " ann ", "Ann", "cat", "dan"}
EmailInputs == {"", "ann@x", "Ann@x", "cat@x", " cat@x", "dan@x"}
PasswordInputs == {"", "12345", "123456", "      "}

Register ==
    /\ UNCHANGED <<pointsTables, scheduleTables, fixed_schedules, reflections,
                   summaries, watchlist_file, session_state, streak_shown, screening,
                   inflight, prompt,
                   last_checkin, today>>
    /\ \E username \in UsernameInputs, email \in EmailInputs,
          password \in PasswordInputs, confirm_password \in PasswordInputs :
          register(username, email, password, confirm_password)

NextRegister ==
    \/ Register

SpecRegister == Init /\ [][NextRegister]_vars

(***************************************************************************)
(* routes/progress.py: progress_center                                     *)
(***************************************************************************)
\* progress_center (GET): the page lists the streak of every habit of the
\* user (get_current_streak); habits of other users are not on it
progress_center(u) ==
    /\ streak_shown' =
          [h \in DOMAIN habits |->
              IF habits[h].user_id = u
              THEN <<get_current_streak(habit_checkins, h)>>
              ELSE <<>>]
    /\ resp' = Response(u, "progress_center", OK, "none")
    /\ UNCHANGED <<pointsTables, today>>

(***************************************************************************)
(* Specification of the streak computation: user 1 has one habit that was  *)
(* checked in, through routes/habits.py, on any set of days up to today;   *)
(* the progress page is rendered.                                          *)
(***************************************************************************)
\* the check-in rows of habit 1 for a set of days
CheckinsOn(days) ==
    {[id |-> d + 1, user_id |-> 1, habit_id |-> 1, checkin_date |-> d] :
       d \in days}

\* the latest of a non-empty set of days
Latest(days) == CHOOSE d \in days : \A e \in days : e <= d

InitStreak ==
    /\ total_points = [u \in Users |-> 0]
    /\ \E t \in 0..MaxStreakDay :
          /\ today = t
          /\ \E days \in SUBSET (0..t) :
                /\ habit_checkins = CheckinsOn(days)
                /\ habits =
                      <<[user_id |-> 1, category |-> "study",
                         points_value |-> DefaultPointsValue,
                         streak_days |->
                            IF days = {} THEN 0
                            ELSE StreakFrom(CheckinsOn(days), 1, Latest(days)),
                         total_checkins |-> Cardinality(days)]>>
    /\ rewards = <<>>
    /\ points_history = <<>>
    /\ category_progress = {}
    /\ tasks = <<>>
    /\ schedules = {}
    /\ schedule_seq = 0
    /\ feedbacks = {}
    /\ fixed_schedules = <<>>
    /\ reflections = {}
    /\ summaries = {}
    /\ users = RegisteredUsers
    /\ watchlist_file = NoFile
    /\ session_state = NoSession
    /\ streak_shown = <<>>
    /\ screening = NoScreening
    /\ inflight = <<>>
    /\ prompt = NoPrompt
    /\ resp = Response(0, "none", OK, "none")
    /\ last_checkin = NoCheckin

ProgressCenter ==
    /\ UNCHANGED <<scheduleTables, fixed_schedules, reflections, summaries,
                   users, watchlist_file, session_state, screening,
                   inflight, prompt, last_checkin>>
    /\ \E u \in Users : progress_center(u)

NextStreak ==
    \/ ProgressCenter

SpecStreak == InitStreak /\ [][NextStreak]_vars

(***************************************************************************)
(* app.py: the watchlist of the stock screener (Streamlit)                 *)
(*                                                                         *)
(* A text is the sequence of its characters; a ticker is a text, the       *)
(* watchlist a sequence of tickers.  The script runs for one browser       *)
(* session at a time.                                                      *)
(***************************************************************************)
DEFAULT_WATCHLIST ==
    << <<"N", "V", "D", "A">>, <<"M", "S", "F", "T">>,
       <<"G", "O", "O", "G", "L">>, <<"A", "M", "Z", "N">>,
       <<"M", "E", "T", "A">>, <<"A", "A", "P", "L">> >>

\* str.upper()
UpperChar(c) == IF c = "a" THEN "A" ELSE IF c = "b" THEN "B" ELSE c
Upper(text) == [i \in DOMAIN text |-> UpperChar(text[i])]

\* str.strip()
RECURSIVE StripText(_)
StripText(text) ==
    IF text = <<>> THEN <<>>
    ELSE IF Head(text) = " " THEN StripText(Tail(text))
    ELSE IF text[Len(text)] = " "
    THEN StripText(SubSeq(text, 1, Len(text) - 1))
    ELSE text

\* ','.join(watchlist)
RECURSIVE Join(_)
Join(watchlist) ==
    IF watchlist = <<>> THEN <<>>
    ELSE IF Len(watchlist) = 1 THEN Head(watchlist)
    ELSE Head(watchlist) \o <<",">> \o Join(Tail(watchlist))

\* content.split(','), with `part` the characters read since the last comma
RECURSIVE SplitFrom(_, _)
SplitFrom(content, part) ==
    IF content = <<>> THEN <<part>>
    ELSE IF Head(content) = ","
    THEN <<part>> \o SplitFrom(Tail(content), <<>>)
    ELSE SplitFrom(Tail(content), Append(part, Head(content)))
Split(content) == SplitFrom(content, <<>>)

\* what load_watchlist_from_file returns when there is nothing to read
Fallback == DEFAULT_WATCHLIST

\* load_watchlist_from_file
load_watchlist_from_file(file) ==
    IF file.state = "unreadable" THEN Fallback
    ELSE IF file.state = "ok" /\ StripText(file.content) # <<>>
    THEN Split(StripText(file.content))
    ELSE Fallback

\* save_watchlist_to_file; written says whether open(..., 'w') and the
\* write went through, which they always do unless the file is unreadable
save_watchlist_to_file(file, watchlist, written) ==
    IF written \/ file.state # "unreadable"
    THEN [state |-> "ok", content |-> Join(watchlist)]
    ELSE file

\* lines 59-64 on the first run of the script in a new browser session
new_session ==
    /\ session_state' =
          [started |-> TRUE,
           watchlist |-> load_watchlist_from_file(watchlist_file),
           watchlist_initialized |-> FALSE]
    /\ UNCHANGED watchlist_file

\* render_sidebar, lines 546-550: the button shown while the list is empty
\* calls init_default_watchlist
init_default_watchlist(written) ==
    /\ session_state.started /\ session_state.watchlist = <<>>
    /\ IF ~session_state.watchlist_initialized
       THEN /\ session_state' =
                  [session_state EXCEPT !.watchlist_initialized = TRUE,
                                        !.watchlist = DEFAULT_WATCHLIST]
            /\ watchlist_file' =
                  save_watchlist_to_file(watchlist_file, DEFAULT_WATCHLIST,
                                         written)
       ELSE UNCHANGED <<session_state, watchlist_file>>

\* save_watchlist
save_watchlist(watchlist, written) ==
    /\ session_state' = [session_state EXCEPT !.watchlist = watchlist]
    /\ watchlist_file' =
          save_watchlist_to_file(watchlist_file, watchlist, written)

\* render_sidebar, lines 554-570: the add button with `text` in the input
add_ticker(text, written) ==
    LET new_ticker == Upper(StripText(text))
        listed == \E i \in DOMAIN session_state.watchlist :
                     session_state.watchlist[i] = new_ticker
    IN /\ session_state.started
       /\ IF new_ticker # <<>> /\ ~listed
          THEN /\ Len(session_state.watchlist) < MaxWatchlist
               /\ save_watchlist(Append(session_state.watchlist, new_ticker),
                                 written)
          ELSE UNCHANGED <<session_state, watchlist_file>>

\* render_sidebar, lines 577-590: the remove button with a selection
remove_tickers(stocks_to_remove, written) ==
    LET Kept(s) == s \notin stocks_to_remove
    IN /\ session_state.started /\ session_state.watchlist # <<>>
       /\ stocks_to_remove # {}
       /\ save_watchlist(SelectSeq(session_state.watchlist, Kept), written)

\* the file is deleted, or made unreadable, outside the application
file_lost(file) ==
    /\ watchlist_file' = file
    /\ UNCHANGED session_state

(***************************************************************************)
(* Specification of the watchlist: sessions start, tickers are added and   *)
(* removed one at a time or all at once, the default list is asked for,    *)
(* and the file may be lost.                                               *)
(***************************************************************************)
\* what is typed into the ticker input
TickerTexts == { <<>>, <<"a">>, <<" ", "A", " ">>, <<"B">>,
                 <<"A", ",", "B">> }

\* selections of the multiselect: one ticker, or all of them
Selections ==
    LET listed == {session_state.watchlist[i] :
                     i \in DOMAIN session_state.watchlist}
    IN {{s} : s \in listed} \cup {listed}

notWatchlist == <<pointsTables, scheduleTables, fixed_schedules, reflections,
                  summaries, users, streak_shown, screening, inflight, prompt,
                  today, resp, last_checkin>>

NewSession ==
    /\ UNCHANGED notWatchlist
    /\ new_session
InitDefaultWatchlist ==
    /\ UNCHANGED notWatchlist
    /\ \E written \in BOOLEAN : init_default_watchlist(written)
AddTicker ==
    /\ UNCHANGED notWatchlist
    /\ \E text \in TickerTexts, written \in BOOLEAN : add_ticker(text, written)
RemoveTickers ==
    /\ UNCHANGED notWatchlist
    /\ \E stocks_to_remove \in Selections, written \in BOOLEAN :
          remove_tickers(stocks_to_remove, written)
FileLost ==
    /\ UNCHANGED notWatchlist
    /\ \E file \in {NoFile, UnreadableFile} : file_lost(file)

NextWatchlist ==
    \/ NewSession
    \/ InitDefaultWatchlist
    \/ AddTicker
    \/ RemoveTickers
    \/ FileLost

SpecWatchlist == Init /\ [][NextWatchlist]_vars

(***************************************************************************)
(* app.py: the seven-step screen and the bonus points                      *)
(*                                                                         *)
(* A figure of a stock is None or <<x>>, x an integer in the unit that     *)
(* makes the threshold of the code an integer: tenths for peg_ratio,       *)
(* fcf_yield and recommendation, hundredths for revenue_growth and         *)
(* eps_growth, billions for total_revenue.                                 *)
(***************************************************************************)
None == <<>>

\* check_step1: Forward PEG <= 1.2, passed when there is no PEG
PegAbsentFails == FALSE
PegAbsentPasses == TRUE
check_step1(data) ==
    IF data.peg_ratio = None THEN PegAbsentPasses
    ELSE data.peg_ratio[1] <= 12

\* check_step2: debt to equity < 50
check_step2(data) ==
    data.debt_to_equity # None /\ data.debt_to_equity[1] < 50

\* check_step3: revenue >= 50e9
check_step3(data) ==
    data.total_revenue # None /\ data.total_revenue[1] >= 50

\* check_step4: Forward PE <= 25 and revenue growth >= 0.15
check_step4(data) ==
    LET pe_ok == data.forward_pe # None /\ data.forward_pe[1] <= 25
        growth_ok == data.revenue_growth # None /\ data.revenue_growth[1] >= 15
    IN pe_ok /\ growth_ok

\* check_step5: eps_growth * 100 >= 20
check_step5(data) ==
    IF data.eps_growth # None THEN data.eps_growth[1] >= 20 ELSE FALSE

\* check_step6: free cash flow > 0 and FCF yield >= 2.5
check_step6(data) ==
    LET fcf_ok == data.free_cash_flow # None /\ data.free_cash_flow[1] > 0
        yield_ok == data.fcf_yield # None /\ data.fcf_yield[1] >= 25
    IN fcf_ok /\ yield_ok

\* check_step7: net cash > 0
check_step7(data) ==
    data.net_cash # None /\ data.net_cash[1] > 0

\* calculate_bonus_points: the details carry the label and the figure shown
calculate_bonus_points(data) ==
    LET pe == data.forward_pe
        ai_pct == data.ai_revenue_pct
        roe == data.roe
        inst == data.institutional_holdings
        rec == data.recommendation
        d1 == IF pe # None /\ pe[1] < 22
              THEN <<[label |-> "guzhiyou", figure |-> pe[1]]>> ELSE <<>>
        d2 == IF ai_pct >= 30
              THEN <<[label |-> "AIyewuqiang", figure |-> ai_pct]>> ELSE <<>>
        d3 == IF roe # None /\ roe[1] >= 25
              THEN <<[label |-> "gaoROE", figure |-> roe[1]]>> ELSE <<>>
        d4 == IF inst # None /\ inst[1] > 70 /\ rec # None /\ rec[1] <= 20
              THEN <<[label |-> "jigoukanhao", figure |-> inst[1]]>> ELSE <<>>
        details == d1 \o d2 \o d3 \o d4
    IN [points |-> Len(details), details |-> details]

\* run_screening; the statuses are qianglie tuijian (strongly recommended),
\* guancha zhong (watching) and bu tuijian (not recommended)
run_screening(data) ==
    LET steps == [step1 |-> check_step1(data), step2 |-> check_step2(data),
                  step3 |-> check_step3(data), step4 |-> check_step4(data),
                  step5 |-> check_step5(data), step6 |-> check_step6(data),
                  step7 |-> check_step7(data)]
        passed_count == Cardinality({k \in DOMAIN steps : steps[k]})
        bonus == calculate_bonus_points(data)
        verdict == IF passed_count = 7
                   THEN [status |-> "qianglietuijian", color |-> "#90EE90"]
                   ELSE IF passed_count >= 5
                   THEN [status |-> "guanchazhong", color |-> "#FFFF99"]
                   ELSE [status |-> "butuijian", color |-> "#FFFFFF"]
    IN [steps |-> steps, passed_count |-> passed_count,
        bonus_points |-> bonus.points, bonus_details |-> bonus.details,
        status |-> verdict.status, color |-> verdict.color]

(***************************************************************************)
(* Specification of the screen: a stock is screened, and screened again    *)
(* after each refresh, its figures changing one at a time.                 *)
(***************************************************************************)
\* the figures get_stock_data can return, around the thresholds; fcf_yield
\* is 0 without a free cash flow
FigureSets ==
    [peg_ratio |-> {None, <<12>>, <<13>>},
     debt_to_equity |-> {<<49>>, <<50>>},
     total_revenue |-> {<<49>>, <<50>>},
     forward_pe |-> {None, <<21>>, <<22>>, <<25>>, <<26>>},
     revenue_growth |-> {<<14>>, <<15>>},
     eps_growth |-> {None, <<19>>, <<20>>},
     fcf |-> {<<None, <<0>>>>, <<<<1>>, <<24>>>>, <<<<1>>, <<25>>>>},
     net_cash |-> {<<0>>, <<1>>},
     ai_revenue_pct |-> {0, 30},
     roe |-> {<<24>>, <<25>>},
     institutional_holdings |-> {<<70>>, <<71>>},
     recommendation |-> {<<20>>, <<21>>}]

StockData ==
    [peg_ratio : FigureSets.peg_ratio,
     debt_to_equity : FigureSets.debt_to_equity,
     total_revenue : FigureSets.total_revenue,
     forward_pe : FigureSets.forward_pe,
     revenue_growth : FigureSets.revenue_growth,
     eps_growth : FigureSets.eps_growth,
     fcf : FigureSets.fcf,
     net_cash : FigureSets.net_cash,
     ai_revenue_pct : FigureSets.ai_revenue_pct,
     roe : FigureSets.roe,
     institutional_holdings : FigureSets.institutional_holdings,
     recommendation : FigureSets.recommendation]

\* the dictionary get_stock_data returns, for the figures chosen
DataOf(f) ==
    [peg_ratio |-> f.peg_ratio, debt_to_equity |-> f.debt_to_equity,
     total_revenue |-> f.total_revenue, forward_pe |-> f.forward_pe,
     revenue_growth |-> f.revenue_growth, eps_growth |-> f.eps_growth,
     free_cash_flow |-> f.fcf[1], fcf_yield |-> f.fcf[2],
     net_cash |-> f.net_cash, ai_revenue_pct |-> f.ai_revenue_pct,
     roe |-> f.roe, institutional_holdings |-> f.institutional_holdings,
     recommendation |-> f.recommendation]

\* the figures fetched next: any at first, then one figure changed
Refetched ==
    IF screening = NoScreening THEN StockData
    ELSE UNION {{[screening[1].figures EXCEPT ![k] = v] : v \in FigureSets[k]} :
                  k \in DOMAIN FigureSets}

notScreening == <<pointsTables, scheduleTables, fixed_schedules, reflections,
                  summaries, users, watchlist_file, session_state,
                  streak_shown, inflight, prompt, today, resp, last_checkin>>

RunScreening ==
    /\ UNCHANGED notScreening
    /\ \E f \in Refetched :
          /\ screening' = <<[figures |-> f, data |-> DataOf(f),
                             result |-> run_screening(DataOf(f))]>>

NextScreening ==
    \/ RunScreening

SpecScreening == Init /\ [][NextScreening]_vars

(***************************************************************************)
(* Specification of the prompt of schedule generation: user 1 creates      *)
(* tasks, meetings or not, with or without a deadline, completes some, and *)
(* asks for generation; the AI service answers or fails.                   *)
(***************************************************************************)
MaxPromptTasks == 2

\* deadlines of the task form: none, 8 and 7 days before day 0, and day 1
Deadlines == {NoDate, -8, -7, 1}

PromptNewTask ==
    /\ UNCHANGED <<pointsOnly, fixed_schedules, elsewhere>>
    /\ Len(tasks) < MaxPromptTasks
    /\ \E is_meeting \in BOOLEAN, deadline \in Deadlines :
          new_task_due(1, "study", is_meeting, deadline)
PromptCompleteTask ==
    /\ UNCHANGED <<pointsOnly, fixed_schedules, elsewhere>>
    /\ \E t \in DOMAIN tasks : complete_task(1, t)
PromptGenerate ==
    /\ UNCHANGED <<pointsOnly, fixed_schedules, notPrompt>>
    /\ \E schedule_type \in ScheduleTypes, outcome \in ApiOutcomes,
          content \in {<<>>, <<TimeLine(9, 10, 1, NULL)>>} :
          generate_schedule(1, schedule_type, TRUE, outcome, content)
PromptNextDay ==
    /\ UNCHANGED elsewhere
    /\ next_day

NextPrompt ==
    \/ PromptNewTask
    \/ PromptCompleteTask
    \/ PromptGenerate
    \/ PromptNextDay

SpecPrompt == Init /\ [][NextPrompt]_vars

(***************************************************************************)
(* Specification of the continuation of schedules: user 1 has a task, asks *)
(* for generation day after day, and reports on the schedules through      *)
(* feedback, with the label of the form or with the status value itself.   *)
(***************************************************************************)
\* replies of the AI service: the task from 9 to 10 today; the task from 9
\* to 10 on day 1; an untitled activity from 9 to 11
ContinueContents ==
    { <<TimeLine(9, 10, 1, NULL)>>,
      <<DateLine(1), TimeLine(9, 10, 1, NULL)>>,
      <<TimeLine(9, 11, 0, NULL)>> }

ContinueNewTask ==
    /\ UNCHANGED <<pointsOnly, fixed_schedules, elsewhere>>
    /\ new_task(1, "study")
ContinueGenerate ==
    /\ UNCHANGED <<pointsOnly, fixed_schedules, notPrompt>>
    /\ \E schedule_type \in ScheduleTypes, content \in ContinueContents :
          generate_schedule(1, schedule_type, TRUE, "ok", content)
ContinueFeedback ==
    /\ UNCHANGED <<pointsOnly, fixed_schedules, elsewhere>>
    /\ \E s \in ScheduleIds, st \in {"yiwancheng", "completed"} :
          feedback(1, s, st, <<>>)
ContinueToggleStatus ==
    /\ UNCHANGED <<pointsOnly, fixed_schedules, elsewhere>>
    /\ \E s \in ScheduleIds, st \in OwnToggleInputs : toggle_status(1, s, st)
ContinueNextDay ==
    /\ UNCHANGED elsewhere
    /\ next_day

NextContinue ==
    \/ ContinueNewTask
    \/ ContinueGenerate
    \/ ContinueFeedback
    \/ ContinueToggleStatus
    \/ ContinueNextDay

SpecContinue == Init /\ [][NextContinue]_vars

(***************************************************************************)
(* Points check-ins handled concurrently.  Each request runs in a session  *)
(* of its own.  Lines 80-93 of routes/progress.py load the habit, find no  *)
(* row for today and hold what they read; the user row was loaded when the *)
(* request was authenticated.  Lines 95-141 write from these values: the   *)
(* first query after user.total_points is assigned flushes the UPDATE, so  *)
(* everything from the RewardProgress query to the commit is one write     *)
(* transaction, and nothing between the lookup and that transaction keeps  *)
(* another request from doing the same.                                    *)
(***************************************************************************)
MaxInflight == 3

\* lines 80-93: 404, the warning for a day that has its row, or a request
\* that goes on with the values it loaded
habit_checkin_lookup(u, habit_id) ==
    IF ~Owned(habits, habit_id, u)
    THEN /\ resp' = Response(u, "habit_checkin", NOT_FOUND, "none")
         /\ UNCHANGED <<pointsTables, today, inflight>>
    ELSE IF TodayCheckins(habit_id) # {}
    THEN /\ resp' = Response(u, "habit_checkin", REDIRECT, "warning")
         /\ UNCHANGED <<pointsTables, today, inflight>>
    ELSE /\ Len(inflight) < MaxInflight
         /\ inflight' = Append(inflight,
               [user |-> u, habit_id |-> habit_id,
                points_value |-> habits[habit_id].points_value,
                total_checkins |-> habits[habit_id].total_checkins,
                total_points |-> total_points[u]])
         /\ UNCHANGED <<pointsTables, today, resp>>

\* the sequence without its i-th element
Without(seq, i) ==
    [j \in 1..(Len(seq) - 1) |-> IF j < i THEN seq[j] ELSE seq[j + 1]]

\* lines 95-141 for the i-th request that passed the lookup
habit_checkin_commit(i) ==
    LET req == inflight[i]
        u == req.user
        habit_id == req.habit_id
        points == req.points_value
        balance == req.total_points + points
        category_prog == CheckinProgress(u, habits[habit_id].category)
    IN /\ inflight' = Without(inflight, i)
       /\ IF "total_points" \notin DOMAIN category_prog
          THEN /\ resp' = Response(u, "habit_checkin", SERVER_ERROR, "none")
               /\ UNCHANGED <<pointsTables, today>>
          ELSE /\ Len(points_history) < MaxHistory
               /\ total_points' = [total_points EXCEPT ![u] = balance]
               /\ category_progress' =
                     (category_progress \ {category_prog}) \cup
                     {[category_prog EXCEPT
                         !.total_points = @ + points,
                         !.checkin_count = @ + 1]}
               /\ points_history' = Append(points_history,
                     HistoryRow(u, points, "habit_checkin", habit_id,
                                balance))
               /\ habits' = [habits EXCEPT
                     ![habit_id].total_checkins = req.total_checkins + 1,
                     ![habit_id].streak_days =
                         get_current_streak(habit_checkins, habit_id) + 1]
               /\ habit_checkins' = habit_checkins \cup
                     {NewCheckin(habit_checkins, u, habit_id)}
               /\ resp' = Response(u, "habit_checkin", REDIRECT, "success")
               /\ UNCHANGED <<rewards, today>>

notInflight == <<reflections, summaries, users, watchlist_file,
                 session_state, streak_shown, screening, prompt>>

ConcurrentAddHabit ==
    /\ UNCHANGED <<scheduleTables, fixed_schedules, notInflight, inflight>>
    /\ last_checkin' = NoCheckin
    /\ \E u \in Users, c \in Categories : add_habit(u, c)
ConcurrentLookup ==
    /\ UNCHANGED <<scheduleTables, fixed_schedules, notInflight>>
    /\ last_checkin' = NoCheckin
    /\ \E u \in Users, h \in HabitIds : habit_checkin_lookup(u, h)
ConcurrentCommit ==
    /\ UNCHANGED <<scheduleTables, fixed_schedules, notInflight>>
    /\ last_checkin' = NoCheckin
    /\ \E i \in DOMAIN inflight : habit_checkin_commit(i)

NextConcurrent ==
    \/ ConcurrentAddHabit
    \/ ConcurrentLookup
    \/ ConcurrentCommit

SpecConcurrent == Init /\ [][NextConcurrent]_vars

(***************************************************************************)
(* Specification of the schedule handlers that move reward-progress hours  *)
(* without feedback: one user adds, toggles, edits and deletes schedules   *)
(* of one or two hours.                                                    *)
(***************************************************************************)
\* start_time form field; every schedule ends at 10
HoursStartTimes == {8, 9}

HoursManualAdd ==
    /\ UNCHANGED <<pointsOnly, fixed_schedules, elsewhere>>
    /\ \E st \in HoursStartTimes, c \in Categories :
          manual_add(1, 0, st, 10, c, 0)
HoursToggleStatus ==
    /\ UNCHANGED <<pointsOnly, fixed_schedules, elsewhere>>
    /\ \E s \in ScheduleIds, st \in ScheduleStatuses : toggle_status(1, s, st)
HoursEditSchedule ==
    /\ UNCHANGED <<pointsOnly, fixed_schedules, elsewhere>>
    /\ \E s \in ScheduleIds, c \in Categories, st \in HoursStartTimes,
          status \in EditStatuses :
          edit_schedule(1, s, 0, c, 0, st, 10, status)
HoursDeleteSchedule ==
    /\ UNCHANGED <<pointsOnly, fixed_schedules, elsewhere>>
    /\ \E s \in ScheduleIds : delete_schedule(1, s)

NextHours ==
    \/ HoursManualAdd
    \/ HoursToggleStatus
    \/ HoursEditSchedule
    \/ HoursDeleteSchedule

SpecHours == Init /\ [][NextHours]_vars

(***************************************************************************)
(* Properties of the points engine, checked under SpecPoints               *)
(***************************************************************************)
\* indices of the ledger rows of user u
LedgerOf(u) == {i \in DOMAIN points_history : points_history[i].user_id = u}
\* today's check-in rows of a habit, read off the table
HasCheckinToday(habit_id) ==
    \E c \in habit_checkins : c.habit_id = habit_id /\ c.checkin_date = today

\* C1: after every check-in, undo and redeem request, accepted or rejected,
\* the ledger row appended last for a user carries that user's total_points
\* as balance_after, and no user's total_points is negative.
C1_LedgerMatchesBalance ==
    \A u \in Users :
        /\ total_points[u] >= 0
        /\ LedgerOf(u) # {} =>
              LET latest == CHOOSE i \in LedgerOf(u) :
                               \A j \in LedgerOf(u) : j <= i
              IN points_history[latest].balance_after = total_points[u]

\* a user's ledger holds a check-in, its undo and a redemption, and the
\* request handled last was rejected
C1_Witness ==
    /\ \E u \in Users :
          /\ \E i \in LedgerOf(u) :
                points_history[i].source_type = "reward_redeem"
          /\ \E i \in LedgerOf(u) :
                /\ points_history[i].points_change = DefaultPointsValue
                /\ points_history[i].source_type = "habit_checkin"
          /\ \E i \in LedgerOf(u) :
                /\ points_history[i].points_change = -DefaultPointsValue
                /\ points_history[i].source_type = "habit_checkin"
          /\ resp.user = u
    /\ resp.flash \in {"warning", "danger"}

\* C4: redeeming a reward that is not yet redeemed and costs more than the
\* user's total_points is rejected, and total_points, the RewardProgress
\* rows, the rewards (is_redeemed) and the ledger stay as they were.
C4_InsufficientRedeemRejected ==
    [][\A u \in Users, r \in RewardIds :
          ( /\ Owned(rewards, r, u)
            /\ ~rewards[r].is_redeemed
            /\ rewards[r].points_required > total_points[u]
            /\ redeem_reward(u, r) )
          => /\ resp'.flash = "danger"
             /\ UNCHANGED <<total_points, category_progress, rewards,
                            points_history>>]_vars

\* a redeem request was just turned down for lack of points (there is no
\* habit, so the rejection is the redeem handler's)
C4_Witness ==
    /\ resp.flash = "danger"
    /\ habits = <<>>
    /\ \E r \in DOMAIN rewards :
          /\ resp.user = rewards[r].user_id
          /\ ~rewards[r].is_redeemed
          /\ rewards[r].points_required > total_points[rewards[r].user_id]

\* C5: an accepted redeem takes exactly points_required off total_points,
\* sets is_redeemed and appends one reward_redeem row with points_change =
\* -points_required; a redeem of a redeemed reward is rejected and changes
\* nothing; so the ledger never holds two redemptions of one reward.
C5_RedeemDebitsOnce ==
    /\ [](\A r \in RewardIds :
            Cardinality({i \in DOMAIN points_history :
                           /\ points_history[i].source_type = "reward_redeem"
                           /\ points_history[i].source_id = r}) <= 1)
    /\ [][\A u \in Users, r \in RewardIds :
            /\ ( /\ Owned(rewards, r, u) /\ ~rewards[r].is_redeemed
                 /\ redeem_reward(u, r) /\ resp'.flash = "success" )
               => /\ total_points'[u] =
                        total_points[u] - rewards[r].points_required
                  /\ rewards'[r].is_redeemed
                  /\ Len(points_history') = Len(points_history) + 1
                  /\ LET row == points_history'[Len(points_history')]
                     IN /\ row.source_type = "reward_redeem"
                        /\ row.source_id = r /\ row.user_id = u
                        /\ row.points_change = -rewards[r].points_required
            /\ ( /\ Owned(rewards, r, u) /\ rewards[r].is_redeemed
                 /\ redeem_reward(u, r) )
               => /\ resp'.flash = "warning"
                  /\ UNCHANGED pointsTables]_vars

\* a redeemed reward, debited once, whose second redemption was just refused
C5_Witness ==
    /\ resp.flash = "warning"
    /\ habits = <<>>
    /\ \E r \in DOMAIN rewards :
          /\ resp.user = rewards[r].user_id
          /\ rewards[r].is_redeemed
          /\ \E i \in DOMAIN points_history :
                /\ points_history[i].source_type = "reward_redeem"
                /\ points_history[i].source_id = r
                /\ points_history[i].points_change = -rewards[r].points_required

\* C6: a points check-in of a habit worth p by a user with balance b, with
\* no check-in today and no RewardProgress row for the habit's category,
\* succeeds: total_points = b + p, a new RewardProgress row with
\* total_points = p and checkin_count = 1, today's HabitCheckin row, and one
\* new ledger row with points_change = p and balance_after = b + p.
C6_FirstCheckinCreatesProgress ==
    [][\A u \in Users, h \in HabitIds :
          ( /\ Owned(habits, h, u)
            /\ ~HasCheckinToday(h)
            /\ ProgressRows(u, habits[h].category) = {}
            /\ habit_checkin(u, h) )
          => LET p == habits[h].points_value
                 b == total_points[u]
             IN /\ resp'.flash = "success"
                /\ total_points'[u] = b + p
                /\ \E row \in category_progress' :
                      /\ row.user_id = u /\ row.category = habits[h].category
                      /\ row.total_points = p /\ row.checkin_count = 1
                /\ \E c \in habit_checkins' :
                      c.habit_id = h /\ c.checkin_date = today
                /\ points_history' = Append(points_history,
                      HistoryRow(u, p, "habit_checkin", h, b + p))]_vars

\* the check-in of a habit whose category has no RewardProgress row ended
\* in a server error with no row created
C6_Witness ==
    /\ resp.code = SERVER_ERROR
    /\ \E h \in DOMAIN habits :
          /\ resp.user = habits[h].user_id
          /\ ProgressRows(habits[h].user_id, habits[h].category) = {}
          /\ ~HasCheckinToday(h)
          /\ habits[h].total_checkins = 0

\* C7: an accepted points check-in directly followed by an accepted points
\* undo of the same habit on the same day puts the user's total_points and
\* the category's RewardProgress row (total_points, checkin_count) back to
\* what the check-in found, removes today's HabitCheckin row, and leaves
\* the ledger with the check-in's +p row followed by a -p row.
C7_CheckinUndoRoundTrip ==
    [][\A u \in Users, h \in HabitIds :
          ( /\ last_checkin.user = u /\ last_checkin.habit = h
            /\ habit_undo(u, h) /\ resp'.flash = "success" )
          => LET p == habits[h].points_value
                 n == Len(points_history)
             IN /\ total_points'[u] = last_checkin.total_points
                /\ {r \in category_progress' :
                      r.user_id = u /\ r.category = habits[h].category}
                      = last_checkin.progress
                /\ ~(\E c \in habit_checkins' :
                        c.habit_id = h /\ c.checkin_date = today)
                /\ Len(points_history') = n + 1
                /\ points_history[n].points_change = p
                /\ points_history'[n] = points_history[n]
                /\ points_history'[n + 1].points_change = -p
                /\ points_history'[n + 1].source_id = h]_vars

\* a check-in was undone: the ledger ends with +p, -p for one habit, its
\* category has a RewardProgress row and today's HabitCheckin row is gone
C7_Witness ==
    /\ resp.flash = "success"
    /\ Len(points_history) >= 2
    /\ LET n == Len(points_history)
       IN /\ points_history[n].source_type = "habit_checkin"
          /\ points_history[n].points_change = -DefaultPointsValue
          /\ points_history[n - 1].source_type = "habit_checkin"
          /\ points_history[n - 1].points_change = DefaultPointsValue
          /\ points_history[n - 1].source_id = points_history[n].source_id
          /\ LET h == points_history[n].source_id
             IN /\ ~HasCheckinToday(h)
                /\ ProgressRows(habits[h].user_id, habits[h].category) # {}
                /\ habits[h].total_checkins = 0

\* C8: a rejected points request changes nothing: a points check-in of a
\* habit that has a check-in today, and a points undo with no check-in
\* today or with total_points below the habit's points_value, leave
\* total_points, the RewardProgress rows, the HabitCheckin rows, the ledger
\* and the habit's counters as they were.
C8_RejectedPointsRequestNoChange ==
    [][\A u \in Users, h \in HabitIds :
          /\ ( /\ Owned(habits, h, u) /\ HasCheckinToday(h)
               /\ habit_checkin(u, h) )
             => /\ resp'.flash = "warning"
                /\ UNCHANGED <<total_points, category_progress,
                               habit_checkins, points_history, habits>>
          /\ ( /\ Owned(habits, h, u)
               /\ \/ ~HasCheckinToday(h)
                  \/ total_points[u] < habits[h].points_value
               /\ habit_undo(u, h) )
             => /\ resp'.flash \in {"warning", "danger"}
                /\ UNCHANGED <<total_points, category_progress,
                               habit_checkins, points_history, habits>>]_vars

\* a points undo was just refused for lack of points: the habit has a
\* check-in today made by the plain route (there is no reward, so the
\* refusal is the undo handler's)
C8_Witness ==
    /\ resp.flash = "danger"
    /\ rewards = <<>>
    /\ \E h \in DOMAIN habits :
          /\ resp.user = habits[h].user_id
          /\ HasCheckinToday(h)
          /\ total_points[habits[h].user_id] < habits[h].points_value

Done == {"yiwancheng", "completed"}

\* C3: a request by a user that addresses by id a task or schedule of
\* another user (complete, feedback, toggle, edit, delete) ends in a
\* not-found response and changes no row.
C3_CrossUserNotFound ==
    [][\A b \in Users :
          /\ \A t \in DOMAIN tasks :
                (tasks[t].user_id # b /\ complete_task(b, t))
                => resp'.code = NOT_FOUND
                   /\ UNCHANGED <<scheduleTables, category_progress>>
          /\ \A s \in schedules :
                ( /\ s.user_id # b
                  /\ \/ \E cs \in FeedbackStatuses, h \in HoursInputs :
                           feedback(b, s.id, cs, h)
                     \/ \E st \in ToggleInputs : toggle_status(b, s.id, st)
                     \/ \E t \in {0} \cup TaskIds, c \in Categories,
                           et \in EndTimes, status \in EditStatuses :
                           edit_schedule(b, s.id, t, c, s.date, s.start_time,
                                         et, status)
                     \/ delete_schedule(b, s.id) )
                => resp'.code = NOT_FOUND
                   /\ UNCHANGED <<scheduleTables, category_progress>>]_vars

\* a request of a user who owns no schedule, addressing another user's
\* schedule, was answered with a server error
C3_Witness ==
    /\ resp.code = SERVER_ERROR
    /\ schedules # {}
    /\ \A s \in schedules : s.user_id # resp.user

\* C9: when feedback "yiwancheng" (done) is submitted for a schedule linked
\* to a pending task and thereafter every schedule of that task is reported
\* done, the task is completed and its completed_at is set.
C9_FeedbackCompletesTask ==
    [][\A u \in Users, s \in schedules, h \in HoursInputs :
          ( /\ s.user_id = u /\ s.task_id \in DOMAIN tasks
            /\ tasks[s.task_id].status = "pending"
            /\ feedback(u, s.id, "yiwancheng", h)
            /\ \A x \in schedules' :
                  x.task_id = s.task_id => x.status \in Done )
          => /\ tasks'[s.task_id].status = "completed"
             /\ tasks'[s.task_id].completed_at]_vars

\* feedback "yiwancheng" was accepted for the only schedule of a task and
\* the task is still pending
C9_Witness ==
    /\ resp.code = REDIRECT /\ resp.flash = "success"
    /\ \E s \in schedules :
          /\ resp.user = s.user_id
          /\ s.status = "yiwancheng"
          /\ s.task_id \in DOMAIN tasks
          /\ tasks[s.task_id].status = "pending"
          /\ \A x \in schedules : x.task_id = s.task_id => x = s
          /\ \E f \in feedbacks : f.schedule_id = s.id

\* C10: after an accepted toggle_status on a schedule linked to a task: if
\* every schedule of the task is completed the task is completed with
\* completed_at set; else if the task was completed and the new status is
\* not completed the task is pending again with completed_at cleared; in
\* every other case the task's status is as before.
C10_ToggleCascadesToTask ==
    [][\A u \in Users, s \in schedules, st \in ToggleInputs :
          ( /\ s.user_id = u /\ s.task_id \in DOMAIN tasks
            /\ resp'.code = OK /\ toggle_status(u, s.id, st) )
          => LET t == s.task_id
             IN IF \A x \in schedules' :
                      x.task_id = t => x.status = "completed"
                THEN tasks'[t].status = "completed" /\ tasks'[t].completed_at
                ELSE IF tasks[t].status = "completed" /\ st # "completed"
                THEN tasks'[t].status = "pending" /\ ~tasks'[t].completed_at
                ELSE tasks'[t].status = tasks[t].status]_vars

\* a toggle was just accepted that took a schedule of a task out of
\* completed while the task's other schedule stays completed, and the task
\* is pending with completed_at cleared
C10_Witness ==
    /\ resp.code = OK /\ resp.flash = "none"
    /\ \E s1 \in schedules, s2 \in schedules :
          /\ resp.user = s1.user_id
          /\ s1.task_id \in DOMAIN tasks /\ s2.task_id = s1.task_id
          /\ s1.status = "completed" /\ s2.status = "cancelled"
          /\ tasks[s1.task_id].status = "pending"
          /\ ~tasks[s1.task_id].completed_at
          /\ feedbacks # {}

\* C11: toggle_status on a schedule with a category: entering completed
\* from another status adds the schedule's duration to the category's
\* RewardProgress total_hours and 1 to its checkin_count, creating the row
\* if absent; leaving completed takes the same amounts off, floored at
\* zero; every other transition leaves the RewardProgress rows unchanged.
C11_ToggleAdjustsHours ==
    [][\A u \in Users, s \in schedules, st \in ScheduleStatuses :
          ( /\ s.user_id = u /\ Truthy(s.category)
            /\ resp'.user = u /\ toggle_status(u, s.id, st) )
          => LET d == Duration(s.start_time, s.end_time)
                 old == ProgressRows(u, s.category)
                 new == {p \in category_progress' :
                           p.user_id = u /\ p.category = s.category}
                 hours(rows) == IF rows = {} THEN 0
                                ELSE (CHOOSE p \in rows : TRUE).total_hours
                 count(rows) == IF rows = {} THEN 0
                                ELSE (CHOOSE p \in rows : TRUE).checkin_count
             IN IF s.status # "completed" /\ st = "completed"
                THEN /\ new # {}
                     /\ hours(new) = hours(old) + d
                     /\ count(new) = count(old) + 1
                ELSE IF s.status = "completed" /\ st # "completed"
                THEN /\ hours(new) = Max0(hours(old) - d)
                     /\ count(new) = Max0(count(old) - 1)
                ELSE UNCHANGED category_progress]_vars

\* the owner's request to complete a scheduled block of a category that has
\* no RewardProgress row was answered with a server error, and no row exists
C11_Witness ==
    /\ resp.code = SERVER_ERROR
    /\ category_progress = {}
    /\ feedbacks = {}
    /\ \E s \in schedules :
          /\ s.user_id = resp.user /\ s.status = "scheduled"
          /\ Truthy(s.category)

(***************************************************************************)
(* Properties of schedule generation, checked under SpecGenerate           *)
(***************************************************************************)
\* C12: when generate_schedule aborts because the API key is missing, or
\* because the AI call fails or returns no content, no schedule row is
\* deleted, inserted or modified: AI-generated schedules in the target
\* range and earlier continuation schedules stay exactly as they were.
C12_AbortLeavesSchedules ==
    [][\/ UNCHANGED <<schedules, schedule_seq, feedbacks, tasks>>
       \/ ~\E u \in Users, schedule_type \in ScheduleTypes,
             api_key \in BOOLEAN, outcome \in ApiOutcomes,
             content \in AiContents :
             /\ ~api_key \/ outcome # "ok" \/ content = <<>>
             /\ resp'.user = u
             /\ generate_schedule(u, schedule_type, api_key, outcome,
                                  content)]_vars

\* a generation request was turned down while the user had an AI-generated
\* schedule of today still scheduled and an earlier one of a task
C12_Witness ==
    /\ resp.code = REDIRECT /\ resp.flash = "danger"
    /\ \E s \in schedules :
          /\ s.user_id = resp.user /\ s.generated_by_ai
          /\ s.date = today /\ s.status = "scheduled"
    /\ \E s \in PreviousUncompleted(resp.user, today) : TRUE

\* C13: a successful generation deletes only AI-generated schedules of the
\* requesting user that are dated inside the target range and not
\* completed.  Schedules reported done (through toggle_status,
\* edit_schedule or feedback), schedules added by hand, schedules outside
\* the range and schedules of other users are never deleted by it.
C13_GenerationDeletesOnlyOpenAiRows ==
    [][\A s \in schedules :
          \/ \E t \in schedules' : t.id = s.id
          \/ \A u \in Users, schedule_type \in ScheduleTypes,
                api_key \in BOOLEAN, outcome \in ApiOutcomes,
                content \in AiContents :
                ( /\ resp'.user = u /\ resp'.flash = "success"
                  /\ generate_schedule(u, schedule_type, api_key, outcome,
                                       content) )
                => /\ s.user_id = u /\ s.generated_by_ai
                   /\ s.status \notin Done
                   /\ today <= s.date
                   /\ s.date <= EndDate(schedule_type, today)]_vars

\* a generation succeeded while the user keeps an AI-generated schedule
\* reported done through feedback and one completed through toggle_status
C13_Witness ==
    /\ resp.code = REDIRECT /\ resp.flash = "success"
    /\ \E s \in schedules :
          /\ s.user_id = resp.user /\ s.generated_by_ai
          /\ s.status = "yiwancheng"
    /\ \E s \in schedules :
          /\ s.user_id = resp.user /\ s.generated_by_ai
          /\ s.status = "completed"

\* (date, start_time, end_time) of a schedule row or of a parsed block
Slot(x) == <<x.date, x.start_time, x.end_time>>

\* C14: in a successful generation a parsed block is not inserted when a
\* schedule of the user that exists when the block is examined has the
\* identical date, start and end: a row left by the deletion step, a fixed
\* schedule placed by this request, or an earlier block of the reply.  A
\* block whose slot differs from all of them in either boundary is
\* inserted, once, even when its time range overlaps one of them.
C14_ExactSlotSkip ==
    [][\A u \in Users, schedule_type \in ScheduleTypes,
          content \in AiContents \ {<<>>} :
          ( /\ resp'.user = u /\ resp'.flash = "success"
            /\ schedule_seq' >= schedule_seq
            /\ generate_schedule(u, schedule_type, TRUE, "ok", content) )
          => LET fixed == FixedOf(u, schedule_type, today)
                 blocks == ParseLines(content, today, today)
                 \* rows of the user that were there before the blocks
                 before == {s \in schedules' :
                              /\ s.user_id = u
                              /\ s.id <= schedule_seq + Len(fixed)}
                 \* rows made from blocks
                 made == {s \in schedules' :
                            s.id > schedule_seq + Len(fixed)}
             IN \A i \in DOMAIN blocks :
                   LET taken == \E s \in before : Slot(s) = Slot(blocks[i])
                       rows == {s \in made : Slot(s) = Slot(blocks[i])}
                   IN IF taken THEN rows = {}
                      ELSE Cardinality(rows) = 1 /\ \A s \in rows : s.user_id = u]_vars

\* a generation succeeded and left the user with a schedule from 9 to 10
\* added by hand and a generated one from 9 to 11 on the same day
C14_Witness ==
    /\ resp.code = REDIRECT /\ resp.flash = "success"
    /\ \E m \in schedules, a \in schedules :
          /\ m.user_id = resp.user /\ a.user_id = resp.user
          /\ ~m.generated_by_ai /\ a.generated_by_ai
          /\ m.date = a.date /\ m.start_time = a.start_time
          /\ m.end_time < a.end_time /\ m.id < a.id

(***************************************************************************)
(* Properties of the daily reflections, checked under SpecReflection       *)
(***************************************************************************)
\* the reflections of user u for a date
ReflectionsOf(rows, u, reflection_date) ==
    {r \in rows : r.user_id = u /\ r.reflection_date = reflection_date}

\* C15: there is at most one DailyReflection row per user and date.  A
\* save_reflection for a date that has a row updates that row in place, and
\* a direct insert of a second row for the same user and date is rejected
\* with the existing row unchanged.
C15_OneReflectionPerDay ==
    /\ [](\A u \in Users, d \in 0..MaxDay :
             Cardinality(ReflectionsOf(reflections, u, d)) <= 1)
    /\ [][\A u \in Users, d \in 0..MaxDay :
             ( /\ resp'.user = u
               /\ ReflectionsOf(reflections, u, d) # {} )
             => LET old == CHOOSE r \in ReflectionsOf(reflections, u, d) : TRUE
                    others == reflections \ {old}
                IN /\ \A date_text \in DateTexts, core_progress \in ProgressTexts,
                         hours_text \in HoursTexts :
                         ( /\ ReflectionDate(date_text) = d
                           /\ save_reflection(u, date_text, core_progress,
                                              hours_text) )
                         => \/ UNCHANGED reflections /\ resp'.code = SERVER_ERROR
                            \/ /\ resp'.flash = "success"
                               /\ reflections' = others \cup
                                     {[old EXCEPT
                                         !.core_progress = core_progress,
                                         !.deep_work_hours =
                                             DeepWorkHours(hours_text)]}
                   /\ \A core_progress \in ProgressTexts :
                         insert_reflection(u, d, core_progress)
                         => /\ UNCHANGED reflections
                            /\ resp'.code = SERVER_ERROR]_vars

\* the table is full, the user has a saved reflection for today, and the
\* request of that user handled last was refused
C15_Witness ==
    /\ Cardinality(reflections) = MaxReflections
    /\ \E r \in ReflectionsOf(reflections, resp.user, today) :
          r.core_progress = "b" /\ r.deep_work_hours = <<2>>
    /\ resp.code = SERVER_ERROR

(***************************************************************************)
(* Properties of the summaries, checked under SpecSummary                  *)
(***************************************************************************)
\* the key of a Summary row
SummaryKey(s) == <<s.user_id, s.summary_type, s.start_date, s.end_date>>

\* C16: there is at most one Summary row per user, type, start date and end
\* date.  generate_summary for a key that has a row overwrites the counts
\* and the text of that row, which keeps its id, and adds no row; this
\* holds on the path taken when there are no reflections too.
C16_OneSummaryPerKey ==
    /\ [](\A s \in summaries, t \in summaries :
             SummaryKey(s) = SummaryKey(t) => s = t)
    /\ [][\A u \in Users, summary_type \in SummaryTypes :
             ( /\ resp'.user = u
               /\ generate_summary(u, summary_type)
               /\ \E s \in summaries :
                     SummaryKey(s) = <<u, summary_type,
                                       SummaryStart(summary_type), today>> )
             => LET old == CHOOSE s \in summaries :
                              SummaryKey(s) = <<u, summary_type,
                                                SummaryStart(summary_type),
                                                today>>
                    planned == {s \in schedules :
                                  /\ s.user_id = u
                                  /\ SummaryStart(summary_type) <= s.date
                                  /\ s.date <= today}
                    reflected == {r \in reflections :
                                    /\ r.user_id = u
                                    /\ SummaryStart(summary_type)
                                          <= r.reflection_date
                                    /\ r.reflection_date <= today}
                IN \E new \in summaries' :
                      /\ summaries' \ {new} = summaries \ {old}
                      /\ new.id = old.id /\ SummaryKey(new) = SummaryKey(old)
                      /\ new.total_tasks = Cardinality(planned)
                      /\ new.completed_tasks =
                            Cardinality({s \in planned :
                                           s.status = "completed"})
                      /\ IF reflected = {}
                         THEN /\ new.ai_summary.notice
                              /\ new.ai_summary.entries = <<>>
                              /\ resp'.flash = "warning"
                         ELSE /\ ~new.ai_summary.notice
                              /\ Len(new.ai_summary.entries) =
                                    Cardinality(reflected)
                              /\ resp'.flash = "success"]_vars

\* user 1 has two summaries of the same days; the one generated first
\* counts more schedules than the other, so it was generated again since
C16_Witness ==
    \E s \in summaries, t \in summaries :
       /\ s.user_id = 1 /\ t.user_id = 1 /\ s.id < t.id
       /\ s.start_date = t.start_date /\ s.end_date = t.end_date
       /\ s.total_tasks > t.total_tasks
       /\ ~s.ai_summary.notice

(***************************************************************************)
(* Properties of registration, checked under SpecRegister                  *)
(***************************************************************************)
\* C17: no two User rows share a username and no two share an email.  A
\* registration attempt with an empty field, a confirmation that differs
\* from the password, a password of fewer than 6 characters, or a username
\* or email of an existing user creates no row and changes none.
C17_RegistrationKeepsUsersUnique ==
    /\ [](\A i \in DOMAIN users, j \in DOMAIN users :
             i # j => /\ users[i].username # users[j].username
                      /\ users[i].email # users[j].email)
    /\ [][\/ UNCHANGED users /\ resp'.flash = "danger"
          \/ ~\E username \in UsernameInputs, email \in EmailInputs,
                password \in PasswordInputs,
                confirm_password \in PasswordInputs :
                /\ \/ Strip(username) = "" \/ Strip(email) = ""
                   \/ password = ""
                   \/ password # confirm_password
                   \/ password \in {"12345"}
                   \/ \E i \in DOMAIN users :
                         \/ users[i].username = Strip(username)
                         \/ users[i].email = Strip(email)
                /\ register(username, email, password, confirm_password)]_vars

\* two visitors have registered, one of them under a name that differs
\* from an existing one in case only, and the attempt handled last was
\* turned down
C17_Witness ==
    /\ Len(users) = MaxUsers
    /\ \E i \in DOMAIN users : users[i].username = "Ann"
    /\ resp.flash = "danger"

(***************************************************************************)
(* Properties of the streak computation, checked under SpecStreak          *)
(***************************************************************************)
\* habit_id has a check-in row for `day`
CheckedOn(habit_id, day) ==
    \E c \in habit_checkins : c.habit_id = habit_id /\ c.checkin_date = day

\* C18: get_current_streak is the number of consecutive days, counted back
\* from today inclusive, that have a check-in row of the habit, stopping at
\* the first day without one.  Check-ins on T, T-1 and T-2 with none on T-3
\* give 3 whatever lies before, and without a check-in today it is 0.
C18_StreakCountsBackFromToday ==
    \A h \in DOMAIN habits :
       LET streak == get_current_streak(habit_checkins, h)
       IN /\ streak \in 0..(today + 1)
          /\ \A i \in 0..(streak - 1) : CheckedOn(h, today - i)
          /\ ~CheckedOn(h, today - streak)
          /\ ~CheckedOn(h, today) => streak = 0
          /\ ( /\ CheckedOn(h, today) /\ CheckedOn(h, today - 1)
               /\ CheckedOn(h, today - 2) /\ ~CheckedOn(h, today - 3) )
             => streak = 3
          /\ streak_shown # <<>> /\ streak_shown[h] # <<>>
             => streak_shown[h] = <<streak>>

\* the page shows a streak of 3 for a habit checked in today and on the two
\* days before, not on the day before those, and on the day before that
C18_Witness ==
    /\ streak_shown = <<<<3>>>>
    /\ CheckedOn(1, today) /\ CheckedOn(1, today - 1)
    /\ CheckedOn(1, today - 2) /\ ~CheckedOn(1, today - 3)
    /\ CheckedOn(1, today - 4)


(***************************************************************************)
(* Properties of the watchlist file (SpecWatchlist)                        *)
(***************************************************************************)
\* C19: watchlist round trip: whenever the file holds what the session's
\* watchlist was saved as (the empty list included), a fresh session loads
\* that same ordered list.
C19_WatchlistRoundTrip ==
    [][ (/\ session_state.started
         /\ watchlist_file.state = "ok"
         /\ watchlist_file.content = Join(session_state.watchlist)
         /\ new_session)
        => session_state'.watchlist = session_state.watchlist ]_vars

\* the emptied watchlist was saved, and the session started after it holds
\* the default list
C19_Witness ==
    /\ watchlist_file = [state |-> "ok", content |-> <<>>]
    /\ session_state.started /\ ~session_state.watchlist_initialized
    /\ session_state.watchlist = DEFAULT_WATCHLIST

\* C20: while the watchlist file is absent or unreadable, a starting session
\* loads the empty watchlist, and the watchlist becomes the default list
\* only by the initialization the user asks for.
C20_EmptyUntilInitialized ==
    [][ watchlist_file.state \in {"absent", "unreadable"}
        => /\ new_session => session_state'.watchlist = <<>>
           /\ (/\ session_state'.watchlist = DEFAULT_WATCHLIST
               /\ session_state.watchlist # DEFAULT_WATCHLIST)
              => \E written \in BOOLEAN : init_default_watchlist(written)
      ]_vars

\* a session holds the default list it never asked for, the file being
\* absent or unreadable
C20_Witness ==
    /\ watchlist_file.state \in {"absent", "unreadable"}
    /\ session_state.started /\ ~session_state.watchlist_initialized
    /\ session_state.watchlist = DEFAULT_WATCHLIST


(***************************************************************************)
(* Properties of the screen (SpecScreening)                                *)
(***************************************************************************)
\* the bonus reported by a screening
BonusOf(r) == <<r.bonus_points, r.bonus_details>>

\* the figures calculate_bonus_points reads
BonusFigures(d) ==
    <<d.forward_pe, d.ai_revenue_pct, d.roe, d.institutional_holdings,
      d.recommendation>>

\* C21: the status and the color of a screening follow from the number of
\* passed steps alone (7: strongly recommended, #90EE90; 5 or 6: watching,
\* #FFFF99; fewer: not recommended, #FFFFFF), step 1 passing whenever there
\* is no PEG; the bonus is 0 to 4 points with one reason each; between two
\* screenings the status stays as long as the passed count does, whatever
\* the bonus, and the bonus stays as long as the figures it reads do,
\* whatever the steps.
C21_StatusFromPassedCount ==
    /\ [](screening # NoScreening =>
            LET d == screening[1].data
                r == screening[1].result
            IN /\ d.peg_ratio = None => r.steps.step1
               /\ r.passed_count = Cardinality({k \in DOMAIN r.steps : r.steps[k]})
               /\ r.passed_count = 7
                  => r.status = "qianglietuijian" /\ r.color = "#90EE90"
               /\ r.passed_count \in {5, 6}
                  => r.status = "guanchazhong" /\ r.color = "#FFFF99"
               /\ r.passed_count < 5
                  => r.status = "butuijian" /\ r.color = "#FFFFFF"
               /\ d.peg_ratio = None /\ (\A k \in DOMAIN r.steps \ {"step1"} : r.steps[k])
                  => r.status = "qianglietuijian"
               /\ r.bonus_points \in 0..4
               /\ Len(r.bonus_details) = r.bonus_points)
    /\ [][ screening # NoScreening =>
             LET d == screening[1].data
                 r == screening[1].result
                 e == screening'[1].data
                 s == screening'[1].result
             IN /\ s.passed_count = r.passed_count
                   => s.status = r.status /\ s.color = r.color
                /\ s.steps = r.steps /\ BonusOf(s) # BonusOf(r)
                   => s.status = r.status
                /\ BonusFigures(e) = BonusFigures(d) => BonusOf(s) = BonusOf(r)
         ]_vars

\* a stock without PEG that passes the six other steps and earns no bonus
\* point has been screened
C21_Witness ==
    /\ screening # NoScreening
    /\ screening[1].data.peg_ratio = None
    /\ screening[1].result.passed_count = 7
    /\ screening[1].result.bonus_points = 0
    /\ screening[1].result.status = "qianglietuijian"


(***************************************************************************)
(* Properties of the schedule statuses (SpecGenerate)                      *)
(***************************************************************************)
\* C22: in every reachable state the status of every schedule row is one
\* of scheduled, completed, partial, cancelled.
C22_ScheduleStatusVocabulary ==
    \A s \in schedules : s.status \in ScheduleStatuses

\* a generated schedule carries the label posted to feedback as its status
C22_Witness ==
    \E s \in schedules :
       /\ s.generated_by_ai /\ s.status = "yiwancheng"
       /\ \E f \in feedbacks : f.schedule_id = s.id


(***************************************************************************)
(* Properties of the check-in rows (SpecPoints)                            *)
(***************************************************************************)
\* C23: requests being handled one after the other, there is at most one
\* check-in row per habit and day, and a plain check-in on a day that has
\* its row leaves the rows as they are.
C23_OneCheckinPerHabitDay ==
    /\ [](\A c, d \in habit_checkins :
             c.habit_id = d.habit_id /\ c.checkin_date = d.checkin_date
             => c = d)
    /\ [][ \/ habit_checkins' = habit_checkins
           \/ ~\E u \in Users, h \in HabitIds :
                 /\ TodayCheckins(h) # {}
                 /\ resp'.user = u
                 /\ checkin(u, h) ]_vars

\* a habit was checked in twice on the day it was created, the second time
\* by a plain check-in, and has one row
C23_Witness ==
    /\ today = 0
    /\ resp.code = REDIRECT /\ resp.flash = "success"
    /\ \E h \in DOMAIN habits :
          /\ habits[h].total_checkins = 2
          /\ Cardinality({c \in habit_checkins : c.habit_id = h}) = 1


LongOverdue(t, start_date) ==
    tasks[t].deadline # NoDate /\ tasks[t].deadline - start_date < -7

\* the task lines promised for the prompt of user u
PromptAsClaimed(lines, u, start_date) ==
    /\ \A t \in PendingTasks(u) :
          (\E i \in DOMAIN lines : lines[i] = t) <=> ~LongOverdue(t, start_date)
    /\ \A i, j \in DOMAIN lines :
          i < j => ~(~tasks[lines[i]].is_meeting /\ tasks[lines[j]].is_meeting)

\* C25: the prompt a generation sends to the AI lists no pending task whose
\* deadline lies more than 7 days before the start of the window, and lists
\* every other pending task of the user, meetings before regular tasks.
C25_PromptSkipsLongOverdue ==
    [][ ~\E u \in Users, schedule_type \in ScheduleTypes,
           outcome \in ApiOutcomes, content \in AiContents :
           /\ resp'.user = u
           /\ PendingTasks(u) # {}
           /\ generate_schedule(u, schedule_type, TRUE, outcome, content)
           /\ ~PromptAsClaimed(prompt'[1].tasks, u, today) ]_vars

\* the prompt sent last lists a pending task whose deadline was 8 days
\* before the day of the request
C25_Witness ==
    /\ prompt # NoPrompt
    /\ resp.user = prompt[1].user_id
    /\ \E i \in DOMAIN prompt[1].tasks :
          /\ tasks[prompt[1].tasks[i]].status = "pending"
          /\ LongOverdue(prompt[1].tasks[i], today)


(***************************************************************************)
(* Properties of the continuation schedules (SpecGenerate)                 *)
(***************************************************************************)
\* the rows a generation of user u inserted for task_id inside the window:
\* rows whose id was handed out during the step
InsertedFor(u, task_id, start_date, end_date) ==
    {s \in schedules' : /\ s.id > schedule_seq
                        /\ s.user_id = u /\ s.task_id = task_id
                        /\ start_date <= s.date /\ s.date <= end_date}

\* a continuation schedule is treated as claimed by the step: cancelled if
\* the step inserted a row for its task inside the window, left scheduled
\* if not
ContinuationAsClaimed(old, u, start_date, end_date) ==
    \E now \in schedules' :
       /\ now.id = old.id
       /\ IF InsertedFor(u, old.task_id, start_date, end_date) # {}
          THEN now.status = "cancelled"
          ELSE now.status = "scheduled"

\* C26: after a successful generation, a continuation schedule (generated
\* by the AI, still scheduled, dated before the window, linked to a task) is
\* cancelled if and only if the run inserted a schedule for the same task
\* inside the window; the others stay scheduled.
C26_CancelIffReplaced ==
    [][ ~\E u \in Users, schedule_type \in ScheduleTypes,
           content \in AiContents :
           /\ resp'.user = u /\ resp'.flash = "success"
           /\ PreviousUncompleted(u, today) # {}
           /\ generate_schedule(u, schedule_type, TRUE, "ok", content)
           /\ \E old \in PreviousUncompleted(u, today) :
                 ~ContinuationAsClaimed(old, u, today,
                                        EndDate(schedule_type, today)) ]_vars

\* yesterday's schedule of a task is cancelled although the only other
\* schedule of the task is older than it: a completed one dated today
C26_Witness ==
    /\ resp.code = REDIRECT /\ resp.flash = "success"
    /\ \E old, kept \in schedules :
          /\ old.user_id = resp.user /\ kept.user_id = resp.user
          /\ old.generated_by_ai /\ kept.generated_by_ai
          /\ old.task_id # 0 /\ kept.task_id = old.task_id
          /\ old.date < today /\ kept.date = today
          /\ old.status = "cancelled" /\ kept.status = "completed"
          /\ kept.id < old.id
          /\ schedule_seq = old.id


(***************************************************************************)
(* Properties of concurrent points check-ins, checked under SpecConcurrent *)
(***************************************************************************)
\* the ledger rows that credit a points check-in of the habit
Credits(habit_id) ==
    {i \in DOMAIN points_history :
        /\ points_history[i].source_type = "habit_checkin"
        /\ points_history[i].source_id = habit_id
        /\ points_history[i].points_change > 0}

\* total_points is the balance_after of the user's latest ledger row
BalanceIsLatest ==
    \A u \in Users :
        LedgerOf(u) # {} =>
            \E i \in LedgerOf(u) :
                /\ \A j \in LedgerOf(u) : j <= i
                /\ total_points[u] = points_history[i].balance_after

RECURSIVE SumOfChanges(_, _)
SumOfChanges(u, n) ==
    IF n = 0 THEN 0
    ELSE SumOfChanges(u, n - 1) +
         (IF points_history[n].user_id = u
          THEN points_history[n].points_change ELSE 0)

\* every ledger row is in the next state what it is now
LedgerKept ==
    /\ Len(points_history') >= Len(points_history)
    /\ \A i \in DOMAIN points_history : points_history'[i] = points_history[i]

\* C28: points conservation.  Starting from total_points 0 and an empty
\* ledger, after any sequence of points check-in, points undo and redeem
\* requests handled one after another, total_points of a user is the sum of
\* points_change over the user's ledger rows, and no request modifies or
\* deletes a ledger row.
C28_PointsConservation ==
    /\ [](\A u \in Users : total_points[u] = SumOfChanges(u, Len(points_history)))
    /\ [][LedgerKept]_vars

\* a check-in, its undo and a redeem have each left their row: the ledger of
\* a user holds a credit and a debit and sums to a positive balance
C28_Witness ==
    \E u \in Users :
        /\ \E i, j \in LedgerOf(u) :
              /\ i < j
              /\ points_history[i].points_change > 0
              /\ points_history[j].points_change < 0
              /\ points_history[j].source_type = "reward_redeem"
        /\ total_points[u] > 0
        /\ total_points[u] = SumOfChanges(u, Len(points_history))


(***************************************************************************)
(* Properties of the reward-progress hours, checked under SpecHours        *)
(***************************************************************************)
\* the user's schedules that have status completed and the category
CompletedIn(u, c) ==
    {s \in schedules : s.user_id = u /\ s.status = "completed" /\ s.category = c}

\* the sum of the durations of a set of schedules
RECURSIVE SumOfDurations(_)
SumOfDurations(rows) ==
    IF rows = {} THEN 0
    ELSE LET s == CHOOSE x \in rows : TRUE
         IN Duration(s.start_time, s.end_time) + SumOfDurations(rows \ {s})

\* progress.total_hours as the handlers read it (lines 688 and 703) from
\* the user's row of the category: <<hours>>, or <<>> for the
\* AttributeError of a class that maps no such attribute
TotalHours(u, c) ==
    IF "total_hours" \in RewardProgress
    THEN <<(CHOOSE p \in ProgressRows(u, c) : TRUE).total_hours>>
    ELSE <<>>

CheckinRows(habit_id) == {c \in habit_checkins : c.habit_id = habit_id}

\* C30: after any sequence of plain check-in, plain undo, points check-in
\* and points undo requests on a habit that started without check-ins, the
\* habit's total_checkins is the number of its HabitCheckin rows, and is
\* never negative.
C30_TotalCheckinsCountsRows ==
    \A h \in DOMAIN habits :
        /\ habits[h].total_checkins = Cardinality(CheckinRows(h))
        /\ habits[h].total_checkins >= 0

\* a plain check-in on a day that already had its row: one row, counted twice
C30_Witness ==
    /\ resp.code = REDIRECT /\ resp.flash = "success"
    /\ \E h \in DOMAIN habits :
          /\ Cardinality(CheckinRows(h)) = 1
          /\ habits[h].total_checkins = 2
          /\ points_history = <<>>

====
